---- MODULE Spec2Model ----
(***************************************************************************)
(* Control plane of the toska-mesh service mesh: the per-instance circuit  *)
(* breaker (internal/healthmonitor/breaker.go), the gateway proxy request  *)
(* path (internal/gateway/proxy.go), the gateway route table              *)
(* (internal/gateway/routes.go), the gateway's rate limiter and handler    *)
(* chain (internal/gateway/middleware.go, cmd/gateway/main.go), the        *)
(* health monitor's probe worker and cache (internal/healthmonitor), the   *)
(* load balancer (internal/router) and the discovery server with the       *)
(* event publisher (internal/discovery, internal/messaging).               *)
(*                                                                         *)
(* Time is an integer number of clock ticks.  Every component has its own  *)
(* specification (SpecBreaker, SpecProxy, SpecRoutes, SpecLimiter,         *)
(* SpecMiddleware, SpecWorker, SpecBalancer, SpecDiscovery); the variables *)
(* of the other components stay at their initial value.                    *)
(***************************************************************************)
EXTENDS Integers, Sequences, FiniteSets, TLC

(***************************************************************************)
(* Bounds of the model.                                                    *)
(***************************************************************************)
MaxThreshold == 2   \* failure thresholds 1..MaxThreshold are explored
MaxBreak == 2       \* break durations 1..MaxBreak ticks are explored
MaxTime == 5        \* the clock stops advancing at MaxTime
MaxFailures == 4    \* cap of a breaker's failureCount

(***************************************************************************)
(* Program constants.                                                      *)
(***************************************************************************)
RecoveryThreshold == 2   \* healthmonitor DefaultConfig().RecoveryThreshold

Min(a, b) == IF a < b THEN a ELSE b

VARIABLES
    now,        \* the clock read by cb.now()
    cb,         \* the breaker under test (SpecBreaker)
    bobs,       \* observer of the breaker's call history (SpecBreaker)
    routes,     \* RouteTable.routes: lower-cased name -> ServiceRoute
    breakers,   \* breakerMap.breakers: serviceID -> CircuitBreaker
    pcfg,       \* the proxy's configuration (prefix, ResilienceConfig)
    req,        \* the requests being served by Proxy.ServeHTTP
    catalog,    \* the external catalog: service name -> instances
    rf,         \* the RouteTable.refresh call in progress
    lk,         \* the last RouteTable.Lookup call and its result
    published,  \* observer: the map the last completed refresh built
    rl,         \* the gateway's RateLimiter: limit, window, buckets
    rlobs,      \* observer of the allow calls, per key and the last call
    mwcfg,      \* the configuration of the gateway's middleware stack
    mreq,       \* the requests in, or the last one served by, the middleware
    hcache,     \* the health monitor's Cache.instances: serviceID -> result
    wk,         \* the Worker.probeAll call in progress and its goroutines
    events,     \* the events handed to the publisher in the current cycle
    provider,   \* the load balancer's InstanceProvider: name -> instances
    lb,         \* the LoadBalancer: roundRobinIdx, connectionCount, stats
    lbg,        \* the goroutines calling Select, ReportResult and Stats
    lbobs,      \* observer of the load balancer's calls
    tracking,   \* discovery Server.tracking: serviceID -> trackingInfo
    rpc,        \* the discovery RPCs in progress and their last responses
    devents     \* the events the discovery server handed to the publisher

bvars == <<cb, bobs>>
gvars == <<routes, breakers, pcfg, req>>
rvars == <<catalog, rf, lk, published>>
mvars == <<rl, rlobs, mwcfg, mreq>>
hvars == <<hcache, wk, events>>
lvars == <<provider, lb, lbg, lbobs>>
dvars == <<tracking, rpc, devents>>

(***************************************************************************)
(* CircuitBreaker: internal/healthmonitor/breaker.go                       *)
(***************************************************************************)
BreakerStates == {"Closed", "Open", "HalfOpen"}

\* NewCircuitBreaker: Closed, no failures, openedAt the zero time.
NewCircuitBreaker(failureThreshold, breakDuration) ==
    [state |-> "Closed", failureCount |-> 0,
     failureThreshold |-> failureThreshold, breakDuration |-> breakDuration,
     openedAt |-> 0]

\* An Allow that counts a refusal as a failure.
AllowCountsRefusal(b, t) ==
    CASE b.state = "Closed" -> [ok |-> TRUE, cb |-> b]
      [] b.state = "Open" ->
            IF t - b.openedAt >= b.breakDuration
            THEN [ok |-> TRUE, cb |-> [b EXCEPT !.state = "HalfOpen"]]
            ELSE [ok |-> FALSE,
                  cb |-> [b EXCEPT !.failureCount = @ + 1, !.openedAt = t]]
      [] b.state = "HalfOpen" -> [ok |-> TRUE, cb |-> b]
      [] OTHER -> [ok |-> TRUE, cb |-> b]

\* Allow with the clock reading t: the verdict and the breaker afterwards.
Allow(b, t) ==
    CASE b.state = "Closed" -> [ok |-> TRUE, cb |-> b]
      [] b.state = "Open" ->
            IF t - b.openedAt >= b.breakDuration
            THEN [ok |-> TRUE, cb |-> [b EXCEPT !.state = "HalfOpen"]]
            ELSE [ok |-> FALSE, cb |-> b]
      [] b.state = "HalfOpen" -> [ok |-> TRUE, cb |-> b]
      [] OTHER -> [ok |-> TRUE, cb |-> b]

\* A RecordSuccess that forgets to reset the failure count.
RecordSuccessKeepsCount(b) == [b EXCEPT !.state = "Closed"]

\* RecordSuccess: reset the count, close the breaker.
RecordSuccess(b) == [b EXCEPT !.failureCount = 0, !.state = "Closed"]

\* A RecordFailure whose threshold test is off by one.
RecordFailureStrict(b, t) ==
    LET n == b.failureCount + 1 IN
    IF b.state = "HalfOpen" \/ n > b.failureThreshold
    THEN [b EXCEPT !.failureCount = n, !.state = "Open", !.openedAt = t]
    ELSE [b EXCEPT !.failureCount = n]

\* A RecordFailure that re-opens a half-open breaker without restarting the
\* break duration.
RecordFailureStaleOpenedAt(b, t) ==
    LET n == b.failureCount + 1 IN
    IF b.state = "HalfOpen"
    THEN [b EXCEPT !.failureCount = n, !.state = "Open"]
    ELSE IF n >= b.failureThreshold
         THEN [b EXCEPT !.failureCount = n, !.state = "Open", !.openedAt = t]
         ELSE [b EXCEPT !.failureCount = n]

\* RecordFailure with the clock reading t.
RecordFailure(b, t) ==
    LET n == b.failureCount + 1 IN
    IF b.state = "HalfOpen" \/ n >= b.failureThreshold
    THEN [b EXCEPT !.failureCount = n, !.state = "Open", !.openedAt = t]
    ELSE [b EXCEPT !.failureCount = n]

\* State with the clock reading t: the breaker after the time check.
State(b, t) ==
    IF b.state = "Open" /\ t - b.openedAt >= b.breakDuration
    THEN [b EXCEPT !.state = "HalfOpen"]
    ELSE b

(***************************************************************************)
(* Observer of one breaker's history.  It is computed from the calls and   *)
(* from the state the breaker shows, never from failureCount or openedAt.  *)
(***************************************************************************)
NewObserver ==
    [lastOp |-> "none", allowResult |-> FALSE, prevState |-> "Closed",
     consecFailures |-> 0, totalFailures |-> 0, reachedF |-> FALSE,
     openTime |-> 0,
     halfOpenAdmits |-> 0, halfOpenSuccesses |-> 0,
     reopened |-> FALSE, reopenTime |-> 0, admitted |-> 0]

Observe(o, op, old, new, ok, t) ==
    LET run == CASE op = "RecordFailure" -> o.consecFailures + 1
                 [] op = "RecordSuccess" -> 0
                 [] OTHER -> o.consecFailures
    IN [lastOp |-> op,
        allowResult |-> ok,
        prevState |-> old.state,
        consecFailures |-> run,
        totalFailures |-> IF op = "RecordFailure"
                          THEN Min(o.totalFailures + 1, MaxFailures)
                          ELSE o.totalFailures,
        reachedF |-> o.reachedF \/ run >= old.failureThreshold,
        openTime |-> IF old.state # "Open" /\ new.state = "Open"
                     THEN t ELSE o.openTime,
        halfOpenAdmits |->
            CASE op \in {"RecordSuccess", "RecordFailure"} -> 0
              [] new.state # "HalfOpen" -> 0
              [] op = "Allow" /\ ok -> Min(o.halfOpenAdmits + 1, 2)
              [] OTHER -> o.halfOpenAdmits,
        halfOpenSuccesses |->
            CASE op = "RecordSuccess" /\ old.state = "HalfOpen" ->
                    o.halfOpenSuccesses + 1
              [] old.state # "HalfOpen" /\ new.state = "HalfOpen" -> 0
              [] OTHER -> o.halfOpenSuccesses,
        reopened |-> CASE op = "RecordFailure" /\ old.state = "HalfOpen" -> TRUE
                       [] op = "RecordSuccess" -> FALSE
                       [] OTHER -> o.reopened,
        reopenTime |-> IF op = "RecordFailure" /\ old.state = "HalfOpen"
                       THEN t ELSE o.reopenTime,
        \* calls that Allow admitted and whose result is not recorded yet
        admitted |->
            CASE op = "Allow" /\ ok -> Min(o.admitted + 1, 2)
              [] op \in {"RecordSuccess", "RecordFailure"} ->
                    IF o.admitted > 0 THEN o.admitted - 1 ELSE 0
              [] OTHER -> o.admitted]

(***************************************************************************)
(* SpecBreaker: one breaker, any sequence of calls, a clock that advances. *)
(***************************************************************************)
BreakerIdle ==
    /\ cb = NewCircuitBreaker(1, 1)
    /\ bobs = NewObserver

GatewayIdle ==
    /\ routes = <<>>
    /\ breakers = <<>>
    /\ pcfg = <<>>
    /\ req = <<>>

RoutesIdle ==
    /\ catalog = <<>>
    /\ rf = [pc |-> "idle", pending |-> <<>>, newRoutes |-> <<>>, log |-> "",
             failed |-> {}, before |-> <<>>,
             healthy |-> {}, pubHealthy |-> {}]
    /\ lk = [name |-> <<>>, result |-> [ServiceID |-> "", Address |-> <<>>],
             refreshing |-> FALSE, fromSnapshot |-> TRUE,
             healthyHit |-> TRUE]
    /\ published = <<>>

MiddlewareIdle ==
    /\ rl = [limit |-> 1, window |-> 1, buckets |-> <<>>]
    /\ rlobs = <<>>
    /\ mwcfg = <<>>
    /\ mreq = <<>>

WorkerIdle ==
    /\ hcache = <<>>
    /\ wk = <<>>
    /\ events = {}

BalancerIdle ==
    /\ provider = <<>>
    /\ lb = <<>>
    /\ lbg = <<>>
    /\ lbobs = <<>>

DiscoveryIdle ==
    /\ tracking = <<>>
    /\ rpc = <<>>
    /\ devents = {}

BreakerInit ==
    /\ now = 0
    /\ \E f \in 1..MaxThreshold, d \in 1..MaxBreak : cb = NewCircuitBreaker(f, d)
    /\ bobs = NewObserver
    /\ GatewayIdle
    /\ RoutesIdle
    /\ MiddlewareIdle
    /\ WorkerIdle
    /\ BalancerIdle
    /\ DiscoveryIdle

BreakerAllow ==
    LET r == Allow(cb, now) IN
    /\ cb' = r.cb
    /\ bobs' = Observe(bobs, "Allow", cb, r.cb, r.ok, now)
    /\ UNCHANGED <<now, gvars, rvars, mvars, hvars, lvars, dvars>>

BreakerRecordSuccess ==
    LET b == RecordSuccess(cb) IN
    /\ cb' = b
    /\ bobs' = Observe(bobs, "RecordSuccess", cb, b, FALSE, now)
    /\ UNCHANGED <<now, gvars, rvars, mvars, hvars, lvars, dvars>>

BreakerRecordFailure ==
    /\ cb.failureCount < MaxFailures
    /\ LET b == RecordFailure(cb, now) IN
       /\ cb' = b
       /\ bobs' = Observe(bobs, "RecordFailure", cb, b, FALSE, now)
    /\ UNCHANGED <<now, gvars, rvars, mvars, hvars, lvars, dvars>>

BreakerState ==
    LET b == State(cb, now) IN
    /\ cb' = b
    /\ bobs' = Observe(bobs, "State", cb, b, FALSE, now)
    /\ UNCHANGED <<now, gvars, rvars, mvars, hvars, lvars, dvars>>

BreakerTick ==
    /\ now < MaxTime
    /\ now' = now + 1
    /\ UNCHANGED <<bvars, gvars, rvars, mvars, hvars, lvars, dvars>>

BreakerNext ==
    \/ BreakerAllow
    \/ BreakerRecordSuccess
    \/ BreakerRecordFailure
    \/ BreakerState
    \/ BreakerTick

vars ==
    <<now, cb, bobs, routes, breakers, pcfg, req, catalog, rf, lk, published,
      rl, rlobs, mwcfg, mreq, hcache, wk, events, provider, lb, lbg, lbobs,
      tracking, rpc, devents>>

SpecBreaker == BreakerInit /\ [][BreakerNext]_vars

(***************************************************************************)
(* Claims about the circuit breaker, checked under SpecBreaker.            *)
(***************************************************************************)

\* C1: after F consecutive RecordFailure calls with no RecordSuccess between
\* them the breaker is Open, and every Allow made while less than the break
\* duration has passed since the breaker opened (and no success was recorded
\* since) returns false.
C1_OpensAfterThreshold ==
    /\ (bobs.lastOp = "RecordFailure"
          /\ bobs.consecFailures >= cb.failureThreshold)
        => cb.state = "Open"
    /\ (bobs.lastOp = "Allow"
          /\ bobs.consecFailures >= cb.failureThreshold
          /\ now - bobs.openTime < cb.breakDuration)
        => ~bobs.allowResult

\* An Allow refused on a breaker opened by two consecutive failures.
C1_Witness ==
    /\ cb.failureThreshold = 2
    /\ bobs.lastOp = "Allow"
    /\ bobs.consecFailures = 2
    /\ now - bobs.openTime < cb.breakDuration
    /\ cb.state = "Open"
    /\ ~bobs.allowResult

\* C2: while the breaker is HalfOpen at most one Allow returns true until
\* RecordSuccess or RecordFailure is called.
C2_SingleHalfOpenProbe == bobs.halfOpenAdmits <= 1

\* C3: a RecordSuccess on a HalfOpen breaker that has recorded fewer than
\* RecoveryThreshold successes since it became HalfOpen leaves it HalfOpen.
C3_ClosesOnlyAfterRecoveryThreshold ==
    (bobs.lastOp = "RecordSuccess"
       /\ bobs.prevState = "HalfOpen"
       /\ bobs.halfOpenSuccesses < RecoveryThreshold)
    => cb.state = "HalfOpen"

\* C4: RecordFailure on a HalfOpen breaker opens it with openedAt the time
\* of that failure, and every Allow made while less than the break duration
\* has passed since that failure (and no success was recorded since) returns
\* false.
C4_HalfOpenFailureReopens ==
    /\ (bobs.lastOp = "RecordFailure" /\ bobs.prevState = "HalfOpen")
        => (cb.state = "Open" /\ cb.openedAt = bobs.reopenTime)
    /\ (bobs.lastOp = "Allow"
          /\ bobs.reopened
          /\ now - bobs.reopenTime < cb.breakDuration)
        => ~bobs.allowResult

\* An Allow refused after a failed half-open probe, later than the first
\* opening's break duration.
C4_Witness ==
    /\ bobs.lastOp = "Allow"
    /\ bobs.reopened
    /\ bobs.reopenTime >= cb.breakDuration
    /\ now > bobs.reopenTime
    /\ now - bobs.reopenTime < cb.breakDuration
    /\ ~bobs.allowResult

\* C5: RecordSuccess on a Closed breaker sets failureCount to 0, and as long
\* as no run of consecutive failures has reached the threshold the breaker
\* is Closed.
C5_SuccessResetsFailureCount ==
    /\ (bobs.lastOp = "RecordSuccess" /\ bobs.prevState = "Closed")
        => (cb.failureCount = 0 /\ cb.state = "Closed")
    /\ ~bobs.reachedF => cb.state = "Closed"

\* At least F failures in all, in runs shorter than F, and still Closed.
C5_Witness ==
    /\ ~bobs.reachedF
    /\ bobs.totalFailures >= cb.failureThreshold
    /\ bobs.lastOp = "RecordFailure"
    /\ cb.state = "Closed"

(***************************************************************************)
(* Gateway: strings are sequences of one-character strings.                *)
(***************************************************************************)
HasPrefix(s, p) == Len(s) >= Len(p) /\ SubSeq(s, 1, Len(p)) = p

HasSuffix(s, p) ==
    Len(s) >= Len(p) /\ SubSeq(s, Len(s) - Len(p) + 1, Len(s)) = p

\* strings.IndexByte: the 0-based index of the first c in s, or -1.
IndexByte(s, c) ==
    IF \E i \in 1..Len(s) : s[i] = c
    THEN (CHOOSE i \in 1..Len(s) : s[i] = c /\ \A j \in 1..(i - 1) : s[j] # c) - 1
    ELSE -1

ToLowerChar(c) ==
    CASE c = "A" -> "a"
      [] c = "B" -> "b"
      [] c = "C" -> "c"
      [] c = "P" -> "p"
      [] c = "H" -> "h"
      [] c = "I" -> "i"
      [] c = "L" -> "l"
      [] c = "R" -> "r"
      [] c = "W" -> "w"
      [] OTHER -> c

\* strings.ToLower
ToLower(s) == [i \in 1..Len(s) |-> ToLowerChar(s[i])]

\* normalizePrefix: the prefix begins and ends with "/".
normalizePrefix(prefix) ==
    IF prefix = <<>> THEN <<"/">>
    ELSE LET p1 == IF HasPrefix(prefix, <<"/">>) THEN prefix ELSE <<"/">> \o prefix
         IN IF HasSuffix(p1, <<"/">>) THEN p1 ELSE p1 \o <<"/">>

ParseFailed == [serviceName |-> <<>>, remainder |-> <<>>, ok |-> FALSE]

\* A ParseServiceFromPath that does not test the prefix.
ParseServiceFromPathNoPrefixTest(prefix, path) ==
    LET rest == SubSeq(path, Len(prefix) + 1, Len(path)) IN
    IF rest = <<>> THEN ParseFailed
    ELSE LET idx == IndexByte(rest, "/") IN
         IF idx < 0
         THEN [serviceName |-> rest, remainder |-> <<"/">>, ok |-> TRUE]
         ELSE [serviceName |-> SubSeq(rest, 1, idx),
               remainder |-> SubSeq(rest, idx + 1, Len(rest)), ok |-> TRUE]

\* ParseServiceFromPath: the first segment after the prefix and the rest.
ParseServiceFromPath(prefix, path) ==
    IF ~HasPrefix(path, prefix) THEN ParseFailed
    ELSE LET rest == SubSeq(path, Len(prefix) + 1, Len(path)) IN
         IF rest = <<>> THEN ParseFailed
         ELSE LET idx == IndexByte(rest, "/") IN
              IF idx < 0
              THEN [serviceName |-> rest, remainder |-> <<"/">>, ok |-> TRUE]
              ELSE [serviceName |-> SubSeq(rest, 1, idx),
                    remainder |-> SubSeq(rest, idx + 1, Len(rest)), ok |-> TRUE]

(***************************************************************************)
(* RouteTable: internal/gateway/routes.go                                  *)
(***************************************************************************)
ServiceIDs == {"s1", "s2"}

\* Backend{ServiceID, Address}; the address is scheme://host:port.
BackendAt(sid, scheme, host, port) ==
    [ServiceID |-> sid, Address |-> <<scheme, "://", host, ":", port>>]

NoBackend == [ServiceID |-> "", Address |-> <<>>]

\* The backends Lookup can return for serviceName (rand.IntN picks one);
\* the empty set stands for nil.
Lookup(rt, serviceName) ==
    LET key == ToLower(serviceName) IN
    IF key \notin DOMAIN rt THEN {}
    ELSE {rt[key].Backends[i] : i \in 1..Len(rt[key].Backends)}

\* RouteTable.Prefix
Prefix(cfg) == normalizePrefix(cfg.RoutePrefix)

(***************************************************************************)
(* Proxy: internal/gateway/proxy.go                                        *)
(***************************************************************************)
MaxRetry == 2       \* ResilienceConfig.RetryCount of the model
MaxProxyTime == 3   \* the clock of SpecProxy stops advancing here

StatusNotFound == 404             \* http.NotFound
StatusInternalError == 500        \* the first status treated as a failure
StatusBadGateway == 502           \* http.StatusBadGateway
StatusServiceUnavailable == 503   \* http.StatusServiceUnavailable

NoResp == [status |-> 0, body |-> <<>>]

\* What the upstream transport can answer to one forwarded request: a
\* transport error, or a response with a status; the body names the call.
UpstreamStatuses == {200, StatusInternalError, StatusServiceUnavailable}

UpstreamOutcomes(sid, n) ==
    {[err |-> TRUE, br |-> NoResp]}
    \cup {[err |-> FALSE, br |-> [status |-> st, body |-> <<"upstream", sid, n>>]] :
            st \in UpstreamStatuses}

\* The state of one ServeHTTP call.  calls, refusals, last5xx and okCall are
\* the observer's record of what happened at the breaker and upstream: the
\* number of upstream calls, the number of attempts the breaker refused, the
\* most recent upstream response with a status of 500 or more, and the first
\* upstream response with a status below 500.
IdleRequest ==
    [pc |-> "idle", path |-> <<>>, serviceName |-> <<>>, remainder |-> <<>>,
     attempt |-> 0, backend |-> NoBackend,
     lastErr |-> "", lastStatus |-> 0, lastResp |-> NoResp,
     response |-> NoResp, writes |-> 0,
     calls |-> 0, refusals |-> 0, last5xx |-> NoResp, okCall |-> NoResp,
     bufferedAt |-> -1, inTable |-> TRUE]

\* bufferedResponse.writeTo / http.Error: one response written to the client.
WriteResponse(r, resp) ==
    [r EXCEPT !.response = resp, !.writes = @ + 1, !.pc = "done"]

\* breakerMap.get: the breaker of serviceID, created on first use.
BreakerMapGet(bm, cfg, serviceID) ==
    IF serviceID \in DOMAIN bm THEN bm
    ELSE [s \in DOMAIN bm \cup {serviceID} |->
            IF s = serviceID
            THEN NewCircuitBreaker(cfg.BreakerFailureThreshold,
                                   cfg.BreakerBreakDuration)
            ELSE bm[s]]

\* A loop that makes one attempt too many.
AttemptsOneMore(cfg) == cfg.RetryCount + 2

\* The number of attempts of the loop: range RetryCount + 1.
Attempts(cfg) == cfg.RetryCount + 1

\* A success test that lets status 500 through.
IsSuccessUpTo500(out) == ~out.err /\ out.br.status <= StatusInternalError

\* err == nil && br.statusCode < 500
IsSuccess(out) == ~out.err /\ out.br.status < StatusInternalError

\* The refusal of an attempt by the breaker.
OnRefused(r) ==
    [r EXCEPT !.lastErr = "circuit breaker open",
              !.lastStatus = StatusServiceUnavailable]

\* A failure bookkeeping that keeps the first buffered 5xx response.
OnFailureKeepsFirst(r, out) ==
    IF out.err THEN [r EXCEPT !.lastErr = "transport"]
    ELSE IF r.lastResp = NoResp
         THEN [r EXCEPT !.lastErr = "", !.lastStatus = out.br.status,
                        !.lastResp = out.br]
         ELSE [r EXCEPT !.lastErr = ""]

\* A failure bookkeeping that forgets the recorded status on a transport
\* error.
OnFailureResetsStatus(r, out) ==
    IF out.err THEN [r EXCEPT !.lastErr = "transport", !.lastStatus = 0]
    ELSE [r EXCEPT !.lastErr = "", !.lastStatus = out.br.status,
                   !.lastResp = out.br]

\* The bookkeeping after a failed attempt: lastErr, and lastStatus and
\* lastResp when a response was buffered.
OnFailure(r, out) ==
    IF out.err THEN [r EXCEPT !.lastErr = "transport"]
    ELSE [r EXCEPT !.lastErr = "", !.lastStatus = out.br.status,
                   !.lastResp = out.br]

\* All attempts exhausted: the last buffered 5xx, else an error with the
\* last recorded status, 502 when there is none.
Exhausted(r) ==
    IF r.lastResp # NoResp THEN WriteResponse(r, r.lastResp)
    ELSE WriteResponse(r,
            [status |-> IF r.lastStatus = 0 THEN StatusBadGateway
                        ELSE r.lastStatus,
             body |-> <<"upstream request failed">>])

\* The end of an attempt that did not succeed: the next attempt after the
\* retry sleep, or the exhaustion of the loop.
\* An end of attempt that flushes the buffered response to the client
\* before the retry.
NextAttemptFlushes(r, cfg) ==
    IF r.attempt + 1 < Attempts(cfg)
    THEN [r EXCEPT !.attempt = @ + 1, !.pc = "sleep",
                   !.response = IF r.lastResp # NoResp THEN r.lastResp ELSE @,
                   !.writes = IF r.lastResp # NoResp THEN @ + 1 ELSE @]
    ELSE Exhausted(r)

NextAttempt(r, cfg) ==
    IF r.attempt + 1 < Attempts(cfg)
    THEN [r EXCEPT !.attempt = @ + 1, !.pc = "sleep"]
    ELSE Exhausted(r)

\* ServeHTTP up to the first attempt: parse the path, look the backend up.
ProxyStart(c, path) ==
    /\ req[c].pc = "idle"
    /\ LET parsed == ParseServiceFromPath(Prefix(pcfg), path)
           r0 == [req[c] EXCEPT !.path = path]
       IN IF ~parsed.ok
          THEN req' = [req EXCEPT ![c] =
                  WriteResponse(r0, [status |-> StatusNotFound,
                                     body |-> <<"404 page not found">>])]
          ELSE LET r1 == [r0 EXCEPT !.serviceName = parsed.serviceName,
                                    !.remainder = parsed.remainder]
                   found == Lookup(routes, parsed.serviceName)
               IN IF found = {}
                  THEN req' = [req EXCEPT ![c] =
                          WriteResponse(r1,
                             [status |-> StatusBadGateway,
                              body |-> <<"service not found: ",
                                         parsed.serviceName>>])]
                  ELSE \E b \in found :
                          req' = [req EXCEPT ![c] =
                                    [r1 EXCEPT !.backend = b, !.pc = "check"]]
    /\ UNCHANGED <<now, bvars, rvars, routes, breakers, pcfg, mvars, hvars, lvars, dvars>>

\* The retry sleep is over: look the backend up again.
ProxyRetryLookup(c) ==
    /\ req[c].pc = "sleep"
    /\ LET found == Lookup(routes, req[c].serviceName) IN
       IF found = {}
       THEN req' = [req EXCEPT ![c].pc = "check", ![c].inTable = FALSE]
       ELSE \E b \in found :
               req' = [req EXCEPT ![c].pc = "check", ![c].backend = b,
                                  ![c].inTable = TRUE]
    /\ UNCHANGED <<now, bvars, rvars, routes, breakers, pcfg, mvars, hvars, lvars, dvars>>

\* The circuit breaker check of an attempt.
ProxyBreakerCheck(c) ==
    /\ req[c].pc = "check"
    /\ LET sid == req[c].backend.ServiceID
           bm == BreakerMapGet(breakers, pcfg, sid)
           a == Allow(bm[sid], now)
       IN /\ breakers' = [bm EXCEPT ![sid] = a.cb]
          /\ IF a.ok
             THEN req' = [req EXCEPT ![c].pc = "forward"]
             ELSE req' = [req EXCEPT ![c] =
                     NextAttempt([OnRefused(req[c]) EXCEPT !.refusals = @ + 1],
                                 pcfg)]
    /\ UNCHANGED <<now, bvars, rvars, routes, pcfg, mvars, hvars, lvars, dvars>>

\* The upstream call returns: record the result on the breaker, answer the
\* client or go on to the next attempt.
ProxyForward(c) ==
    /\ req[c].pc = "forward"
    /\ LET sid == req[c].backend.ServiceID
           n == req[c].calls + 1
       IN \E out \in UpstreamOutcomes(sid, n) :
            LET r0 == [req[c] EXCEPT
                         !.calls = n,
                         !.bufferedAt = IF out.err THEN @ ELSE req[c].attempt,
                         !.last5xx = IF ~out.err
                                        /\ out.br.status >= StatusInternalError
                                     THEN out.br ELSE @,
                         !.okCall = IF ~out.err
                                       /\ out.br.status < StatusInternalError
                                       /\ @ = NoResp
                                    THEN out.br ELSE @]
            IN IF IsSuccess(out)
               THEN /\ breakers' = [breakers EXCEPT ![sid] = RecordSuccess(@)]
                    /\ req' = [req EXCEPT ![c] = WriteResponse(r0, out.br)]
               ELSE /\ breakers[sid].failureCount < MaxFailures
                    /\ breakers' = [breakers EXCEPT ![sid] = RecordFailure(@, now)]
                    /\ req' = [req EXCEPT ![c] = NextAttempt(OnFailure(r0, out), pcfg)]
    /\ UNCHANGED <<now, bvars, rvars, routes, pcfg, mvars, hvars, lvars, dvars>>

\* ServeHTTP has returned; the client sends its next request.
ProxyReturn(c) ==
    /\ req[c].pc = "done"
    /\ req' = [req EXCEPT ![c] = IdleRequest]
    /\ UNCHANGED <<now, bvars, rvars, routes, breakers, pcfg, mvars, hvars, lvars, dvars>>

\* The route tables a refresh can publish while requests are served.
ServiceA == <<"a">>

ProxyTables ==
    {<<>>}
    \cup {(ServiceA :> [ServiceName |-> ServiceA, Backends |-> bs]) :
            bs \in {<<BackendAt("s1", "http", "h1", 80)>>,
                    <<BackendAt("s1", "http", "h1", 80),
                      BackendAt("s2", "http", "h2", 80)>>}}

\* RouteTable.refresh publishes a new route table.
ProxyRouteRefresh ==
    /\ \E t \in ProxyTables : t # routes /\ routes' = t
    /\ UNCHANGED <<now, bvars, rvars, breakers, pcfg, req, mvars, hvars, lvars, dvars>>

ProxyTick ==
    /\ now < MaxProxyTime
    /\ now' = now + 1
    /\ UNCHANGED <<bvars, gvars, rvars, mvars, hvars, lvars, dvars>>

\* The request paths of the model.
ProxyPaths ==
    {<<"/", "p", "/", "a">>,
     <<"/", "p", "/", "A", "/", "x">>,
     <<"/", "p", "/", "b", "/", "x">>,
     <<"/", "p", "/", "/", "x">>,
     <<"/", "p", "/">>,
     <<"/", "p">>,
     <<"/", "x", "/", "a">>,
     <<"/", "a", "/", "x">>,
     <<>>}

ProxyInit ==
    /\ now = 0
    /\ BreakerIdle
    /\ routes \in ProxyTables
    /\ breakers = <<>>
    /\ \E f \in 1..MaxThreshold :
          pcfg = [RoutePrefix |-> <<"p">>, RetryCount |-> MaxRetry,
                  BreakerFailureThreshold |-> f,
                  BreakerBreakDuration |-> MaxBreak]
    /\ req = [c \in {"c1"} |-> IdleRequest]
    /\ RoutesIdle
    /\ MiddlewareIdle
    /\ WorkerIdle
    /\ BalancerIdle
    /\ DiscoveryIdle

ProxyNext ==
    \/ \E c \in DOMAIN req, path \in ProxyPaths : ProxyStart(c, path)
    \/ \E c \in DOMAIN req : ProxyRetryLookup(c)
    \/ \E c \in DOMAIN req : ProxyBreakerCheck(c)
    \/ \E c \in DOMAIN req : ProxyForward(c)
    \/ \E c \in DOMAIN req : ProxyReturn(c)
    \/ ProxyRouteRefresh
    \/ ProxyTick

SpecProxy == ProxyInit /\ [][ProxyNext]_vars

(***************************************************************************)
(* Claims about the proxy, checked under SpecProxy.                        *)
(***************************************************************************)
AttemptsUsed(r) == r.calls + r.refusals

\* C6: a request is forwarded upstream at most 1 + RetryCount times; the
\* first upstream response below 500 ends the request and is the response
\* the client receives; a request that was attempted and got no such
\* response ends only when all 1 + RetryCount attempts are used.
C6_StopsAtFirstSuccess ==
    \A c \in DOMAIN req :
        LET r == req[c] IN
        /\ AttemptsUsed(r) <= pcfg.RetryCount + 1
        /\ r.okCall # NoResp =>
              /\ r.pc = "done"
              /\ r.response = r.okCall
              /\ r.writes = 1
              /\ r.okCall.body[3] = r.calls
        /\ (r.pc = "done" /\ r.okCall = NoResp /\ AttemptsUsed(r) > 0) =>
              AttemptsUsed(r) = pcfg.RetryCount + 1

\* Two 5xx responses, then a 200 on the third call, which the client gets.
C6_Witness ==
    \E c \in DOMAIN req :
        /\ req[c].pc = "done"
        /\ req[c].calls = 3
        /\ req[c].refusals = 0
        /\ req[c].last5xx.body[3] = 2
        /\ req[c].response.status = 200
        /\ req[c].response = req[c].okCall

\* C7: when all attempts are used without a response below 500, the client
\* receives the most recent 5xx upstream response if there was one; if no
\* attempt produced an upstream response it receives 503 when the breaker
\* refused an attempt and 502 otherwise.
C7_ExhaustedReturnsLast5xx ==
    \A c \in DOMAIN req :
        LET r == req[c] IN
        (r.pc = "done" /\ r.okCall = NoResp
           /\ AttemptsUsed(r) = pcfg.RetryCount + 1) =>
            IF r.last5xx # NoResp
            THEN r.response = r.last5xx
            ELSE /\ r.response.status =
                       IF r.refusals > 0 THEN StatusServiceUnavailable
                       ELSE StatusBadGateway
                 /\ r.response.body = <<"upstream request failed">>

\* Two upstream 5xx responses with different statuses; the client gets the
\* second.
C7_Witness ==
    \E c \in DOMAIN req :
        /\ req[c].pc = "done"
        /\ req[c].okCall = NoResp
        /\ req[c].lastResp # NoResp
        /\ req[c].last5xx.body[3] >= 2
        /\ req[c].last5xx.status = StatusInternalError
        /\ req[c].response = req[c].last5xx

\* C8 as stated: a request with a refused attempt and no successful attempt
\* is answered 503.
C8_RefusedMeans503 ==
    \A c \in DOMAIN req :
        (req[c].pc = "done" /\ req[c].refusals > 0 /\ req[c].okCall = NoResp)
        => req[c].response.status = StatusServiceUnavailable

\* C8 as amended: a request with a refused attempt and no successful attempt
\* is answered 503 if no attempt returned an upstream response, and with the
\* most recent upstream 5xx response otherwise.
C8_RefusedWithoutResponseMeans503 ==
    \A c \in DOMAIN req :
        (req[c].pc = "done" /\ req[c].refusals > 0 /\ req[c].okCall = NoResp)
        => IF req[c].last5xx = NoResp
           THEN req[c].response.status = StatusServiceUnavailable
           ELSE req[c].response.status = req[c].last5xx.status

\* A refused attempt followed by an attempt that failed in transport, and
\* the client is answered 503.
C8_Witness ==
    \E c \in DOMAIN req :
        /\ req[c].pc = "done"
        /\ req[c].refusals > 0
        /\ req[c].calls > 0
        /\ req[c].lastErr = "transport"
        /\ req[c].last5xx = NoResp
        /\ req[c].response.status = StatusServiceUnavailable

\* The service name has no backend in route table rt.
NoBackendFor(rt, serviceName) ==
    \/ ToLower(serviceName) \notin DOMAIN rt
    \/ Len(rt[ToLower(serviceName)].Backends) = 0

\* C9: a request whose path does not start with the route prefix is answered
\* 404, a request for a service with no backend in the route table is
\* answered 502 with "service not found: <name>"; neither makes an upstream
\* call nor creates or changes a circuit breaker.
C9_NoRouteNoUpstream ==
    [][\A c \in DOMAIN req :
         (req[c].pc = "idle" /\ req'[c].pc # "idle") =>
            LET r == req'[c]
                pre == normalizePrefix(pcfg.RoutePrefix)
                unrouted == \/ ~HasPrefix(r.path, pre)
                            \/ NoBackendFor(routes, r.serviceName)
            IN /\ ~HasPrefix(r.path, pre) =>
                    r.response.status = StatusNotFound
               /\ (HasPrefix(r.path, pre) /\ r.path # pre
                     /\ NoBackendFor(routes, r.serviceName)) =>
                    /\ r.response.status = StatusBadGateway
                    /\ r.response.body = <<"service not found: ", r.serviceName>>
               /\ unrouted =>
                    /\ r.pc = "done"
                    /\ r.writes = 1
                    /\ r.calls = 0
                    /\ breakers' = breakers
      ]_vars

\* A request for the unknown service b answered 502 while breakers exist.
C9_Witness ==
    \E c \in DOMAIN req :
        /\ req[c].pc = "done"
        /\ req[c].serviceName = <<"b">>
        /\ req[c].response = [status |-> StatusBadGateway,
                              body |-> <<"service not found: ", <<"b">>>>]
        /\ req[c].calls = 0
        /\ breakers # <<>>

(***************************************************************************)
(* RouteTable.refresh and the catalog: internal/gateway/routes.go and the  *)
(* consul registry.                                                        *)
(***************************************************************************)
NameA == <<"a">>
NameB == <<"B">>
ConsulName == <<"c", "o", "n", "s", "u", "l">>
ConsulMixed == <<"C", "o", "n", "s", "u", "l">>

\* strings.EqualFold on the characters of the model.
EqualFold(a, b) == ToLower(a) = ToLower(b)

\* consul.Instance: Metadata is a map, here with at most the key "scheme".
Instance(sid, host, port, status, meta) ==
    [ServiceID |-> sid, Address |-> host, Port |-> port, Status |-> status,
     Metadata |-> meta]

NoMeta == [k \in {} |-> ""]

SchemeMeta(s) == [k \in {"scheme"} |-> s]

\* The catalogs of the model: service a with s1 (Healthy or Unhealthy) and
\* maybe s2, or no service a; service B with s3 (Healthy or Degraded); the
\* catalog's own service under two spellings.
Catalogs ==
    LET consulOnly ==
            [n \in {ConsulName, ConsulMixed} |->
                <<Instance("c0", "h0", 8300, "Healthy", NoMeta)>>]
        withB(st) ==
            [n \in {ConsulName, ConsulMixed, NameB} |->
                IF n = NameB THEN <<Instance("s3", "h3", 80, st, SchemeMeta(""))>>
                ELSE consulOnly[n]]
        withA(base, insts) ==
            [n \in DOMAIN base \cup {NameA} |->
                IF n = NameA THEN insts ELSE base[n]]
        aLists ==
            {<<Instance("s1", "h1", 80, st, NoMeta)>> :
                st \in {"Healthy", "Unhealthy"}}
            \cup {<<Instance("s1", "h1", 80, st, NoMeta),
                    Instance("s2", "h2", 443, "Healthy", SchemeMeta("https"))>> :
                st \in {"Healthy", "Unhealthy"}}
    IN {withB(st) : st \in {"Healthy", "Degraded"}}
       \cup {withA(withB(st), l) : st \in {"Healthy", "Degraded"}, l \in aLists}

\* Registry.GetServices: the names of the catalog but "consul" itself.
RegistryGetServices(cat) == {n \in DOMAIN cat : n # ConsulName}

\* The orders in which ranging over the catalog's map can list the names.
Orders(S) ==
    {f \in [1..Cardinality(S) -> S] :
        \A i, j \in 1..Cardinality(S) : i # j => f[i] # f[j]}

\* The scheme of a backend: the metadata's, http when absent or empty.
SchemeOf(inst) ==
    IF "scheme" \in DOMAIN inst.Metadata /\ inst.Metadata["scheme"] # ""
    THEN inst.Metadata["scheme"]
    ELSE "http"

BackendOf(inst) ==
    BackendAt(inst.ServiceID, SchemeOf(inst), inst.Address, inst.Port)

\* The backends of the Healthy instances, in the catalog's order.
RECURSIVE HealthyBackends(_)
\* A filter that drops only the Unhealthy instances.
HealthyBackendsKeepsDegraded(instances) ==
    SelectSeq([i \in 1..Len(instances) |-> BackendOf(instances[i])],
              LAMBDA b : \E i \in 1..Len(instances) :
                            /\ instances[i].ServiceID = b.ServiceID
                            /\ instances[i].Status # "Unhealthy")

HealthyBackends(instances) ==
    IF instances = <<>> THEN <<>>
    ELSE LET rest == HealthyBackends(Tail(instances)) IN
         IF Head(instances).Status # "Healthy" THEN rest
         ELSE <<BackendOf(Head(instances))>> \o rest

\* newRoutes[strings.ToLower(serviceName)] = &ServiceRoute{...}
AddRoute(newRoutes, serviceName, backends) ==
    [k \in DOMAIN newRoutes \cup {ToLower(serviceName)} |->
        IF k = ToLower(serviceName)
        THEN [ServiceName |-> serviceName, Backends |-> backends]
        ELSE newRoutes[k]]

\* A publication that copies the new entries into the live map and keeps
\* the entries the new map no longer has.
SwapMerging(rt, newRoutes) ==
    [k \in DOMAIN rt \cup DOMAIN newRoutes |->
        IF k \in DOMAIN newRoutes THEN newRoutes[k] ELSE rt[k]]

\* rt.routes = newRoutes, under the write lock.
Swap(rt, newRoutes) == newRoutes

\* A refresh that builds the new map in rt.routes itself.
LiveTableBuiltInPlace(rt, newRoutes) == newRoutes

\* While refresh builds newRoutes, a local map, rt.routes is not written.
LiveTableDuringBuild(rt, newRoutes) == rt

\* No refresh in progress.  failed and before belong to the observer: the
\* keys of the services whose GetInstances call failed in the refresh, and
\* the live table as it was when the refresh ended.
IdleRefresh ==
    [pc |-> "idle", pending |-> <<>>, newRoutes |-> <<>>, log |-> "",
     failed |-> {}, before |-> <<>>,
             healthy |-> {}, pubHealthy |-> {}]

NoLookup ==
    [name |-> <<>>, result |-> NoBackend, refreshing |-> FALSE,
     fromSnapshot |-> TRUE, healthyHit |-> TRUE]

\* refresh, first step: list the services; a failure is logged and ends
\* the refresh.
RefreshListServices ==
    /\ rf.pc = "idle"
    /\ \/ rf' = [IdleRefresh EXCEPT !.log = "failed to list services from Consul",
                                     !.before = routes,
                                     !.pubHealthy = rf.pubHealthy]
       \/ \E order \in Orders(RegistryGetServices(catalog)) :
             rf' = [IdleRefresh EXCEPT !.pc = "build", !.pending = order,
                                       !.pubHealthy = rf.pubHealthy]
    /\ UNCHANGED <<now, bvars, gvars, catalog, lk, published, mvars, hvars, lvars, dvars>>

\* The instances the catalog reported Healthy for a service in this refresh,
\* as pairs of the lower-cased service name and the serviceID; a later
\* listing under the same lower-cased name replaces the earlier one.
ReadHealthy(h, serviceName, instances) ==
    {pr \in h : pr[1] # ToLower(serviceName)}
    \cup {<<ToLower(serviceName), instances[i].ServiceID>> :
            i \in {j \in 1..Len(instances) : instances[j].Status = "Healthy"}}

\* refresh, one iteration of the loop over the services.
RefreshService ==
    /\ rf.pc = "build"
    /\ rf.pending # <<>>
    /\ LET serviceName == Head(rf.pending)
           skip(msg) == [rf EXCEPT !.pending = Tail(@), !.log = msg]
       IN IF EqualFold(serviceName, ConsulName)
          THEN rf' = skip(rf.log)
          ELSE \/ rf' = [skip("failed to get instances") EXCEPT
                           !.failed = @ \cup {ToLower(serviceName)}]
               \/ LET instances == IF serviceName \in DOMAIN catalog
                                   THEN catalog[serviceName] ELSE <<>>
                      backends == HealthyBackends(instances)
                  IN IF backends = <<>>
                     THEN rf' = skip("no healthy instances")
                     ELSE rf' = [rf EXCEPT
                                   !.pending = Tail(@),
                                   !.newRoutes = AddRoute(@, serviceName, backends),
                                   !.healthy = ReadHealthy(@, serviceName, instances)]
    /\ routes' = LiveTableDuringBuild(routes, rf'.newRoutes)
    /\ UNCHANGED <<now, bvars, breakers, pcfg, req, catalog, lk, published, mvars, hvars, lvars, dvars>>

\* refresh, last step: the new map replaces the old one.
RefreshPublish ==
    /\ rf.pc = "build"
    /\ rf.pending = <<>>
    /\ routes' = Swap(routes, rf.newRoutes)
    /\ published' = rf.newRoutes
    /\ rf' = [IdleRefresh EXCEPT !.log = "route table refreshed",
                                 !.failed = rf.failed, !.before = routes,
                                 !.pubHealthy = rf.healthy]
    /\ UNCHANGED <<now, bvars, breakers, pcfg, req, catalog, lk, mvars, hvars, lvars, dvars>>

\* Instances register, deregister and change health in the catalog.
CatalogChange ==
    /\ \E cat \in Catalogs : cat # catalog /\ catalog' = cat
    /\ UNCHANGED <<now, bvars, gvars, rf, lk, published, mvars, hvars, lvars, dvars>>

LookupNames == {<<"a">>, <<"A">>, <<"b">>, ConsulMixed}

\* A caller runs RouteTable.Lookup, under the read lock.  The observer notes
\* whether a refresh is in progress and whether the result is what the map
\* of the last completed refresh gives for the name.
RouteLookup ==
    /\ \E name \in LookupNames :
         LET found == Lookup(routes, name)
             allowed == Lookup(published, name)
         IN \E res \in (IF found = {} THEN {NoBackend} ELSE found) :
               lk' = [name |-> name, result |-> res,
                      refreshing |-> rf.pc = "build",
                      fromSnapshot |-> IF res = NoBackend THEN allowed = {}
                                       ELSE res \in allowed,
                      healthyHit |-> \/ res = NoBackend
                                     \/ <<ToLower(name), res.ServiceID>>
                                            \in rf.pubHealthy]
    /\ UNCHANGED <<now, bvars, gvars, catalog, rf, published, mvars, hvars, lvars, dvars>>

RoutesInit ==
    /\ now = 0
    /\ BreakerIdle
    /\ routes = <<>>
    /\ breakers = <<>>
    /\ pcfg = <<>>
    /\ req = <<>>
    /\ catalog \in Catalogs
    /\ rf = IdleRefresh
    /\ lk = NoLookup
    /\ published = <<>>
    /\ MiddlewareIdle
    /\ WorkerIdle
    /\ BalancerIdle
    /\ DiscoveryIdle

RoutesNext ==
    \/ RefreshListServices
    \/ RefreshService
    \/ RefreshPublish
    \/ CatalogChange
    \/ RouteLookup

SpecRoutes == RoutesInit /\ [][RoutesNext]_vars

(***************************************************************************)
(* Claims about the route table, checked under SpecRoutes.                 *)
(***************************************************************************)

\* C10: the live route table is always the map built by the last completed
\* refresh (the empty map before the first), never a partially built one,
\* and every Lookup result is what that map gives for the name: a backend
\* of its entry, or nothing when it has no entry.
C10_AtomicSwap ==
    /\ routes = published
    /\ lk.fromSnapshot

\* A Lookup made while a later refresh was building a different map
\* returned a backend of the published map.
C10_Witness ==
    /\ lk.refreshing
    /\ lk.result.ServiceID = "s2"
    /\ lk.fromSnapshot
    /\ rf.pc = "build"
    /\ rf.pending = <<>>
    /\ NameA \notin DOMAIN rf.newRoutes
    /\ NameA \in DOMAIN routes

\* C11: a catalog call that fails during a refresh leaves the last-known
\* routes alone.  After a refresh whose listing failed the live table is the
\* table from before the refresh, and after a refresh in which fetching the
\* instances of a service failed, the entry that service had before the
\* refresh is still in the live table, unchanged.
C11_FailureKeepsLastKnown ==
    rf.pc = "idle" =>
        /\ rf.log = "failed to list services from Consul" => routes = rf.before
        /\ \A k \in rf.failed :
              k \in DOMAIN rf.before =>
                  k \in DOMAIN routes /\ routes[k] = rf.before[k]

(***************************************************************************)
(* RateLimiter: internal/gateway/middleware.go.  Fixed window per key.     *)
(***************************************************************************)
MaxPermits == 2       \* permit limits 1..MaxPermits are explored
MaxWindow == 2        \* windows of 1..MaxWindow ticks are explored
MaxLimiterTime == 5   \* the clock of SpecLimiter stops at MaxLimiterTime

\* NewRateLimiter: no buckets.
NewRateLimiter(limit, windowSeconds) ==
    [limit |-> limit, window |-> windowSeconds, buckets |-> <<>>]

\* time.Time.After: strictly later.
After(t, u) == t > u

\* rl.buckets[key] = b
SetBucket(lim, key, b) ==
    [lim EXCEPT !.buckets =
        [k \in DOMAIN lim.buckets \cup {key} |->
            IF k = key THEN b ELSE lim.buckets[k]]]

\* An allow that rejects one request too late.
allowOffByOne(lim, key, t) ==
    IF key \notin DOMAIN lim.buckets \/ After(t, lim.buckets[key].resetAt)
    THEN [ok |-> TRUE,
          rl |-> SetBucket(lim, key, [count |-> 1, resetAt |-> t + lim.window])]
    ELSE IF lim.buckets[key].count > lim.limit
         THEN [ok |-> FALSE, rl |-> lim]
         ELSE [ok |-> TRUE,
               rl |-> SetBucket(lim, key,
                        [lim.buckets[key] EXCEPT !.count = @ + 1])]

\* An allow that counts every key in one bucket.
allowSharedBucket(lim, key, t) ==
    LET shared == <<"*">> IN
    IF shared \notin DOMAIN lim.buckets \/ After(t, lim.buckets[shared].resetAt)
    THEN [ok |-> TRUE,
          rl |-> SetBucket(lim, shared, [count |-> 1, resetAt |-> t + lim.window])]
    ELSE IF lim.buckets[shared].count >= lim.limit
         THEN [ok |-> FALSE, rl |-> lim]
         ELSE [ok |-> TRUE,
               rl |-> SetBucket(lim, shared,
                        [lim.buckets[shared] EXCEPT !.count = @ + 1])]

\* An allow that never replaces a bucket whose window is over.
allowNeverExpires(lim, key, t) ==
    IF key \notin DOMAIN lim.buckets
    THEN [ok |-> TRUE,
          rl |-> SetBucket(lim, key, [count |-> 1, resetAt |-> t + lim.window])]
    ELSE IF lim.buckets[key].count >= lim.limit
         THEN [ok |-> FALSE, rl |-> lim]
         ELSE [ok |-> TRUE,
               rl |-> SetBucket(lim, key,
                        [lim.buckets[key] EXCEPT !.count = @ + 1])]

\* RateLimiter.allow with the clock reading t, the whole body under rl.mu:
\* the verdict and the limiter afterwards.
allow(lim, key, t) ==
    IF key \notin DOMAIN lim.buckets \/ After(t, lim.buckets[key].resetAt)
    THEN [ok |-> TRUE,
          rl |-> SetBucket(lim, key, [count |-> 1, resetAt |-> t + lim.window])]
    ELSE IF lim.buckets[key].count >= lim.limit
         THEN [ok |-> FALSE, rl |-> lim]
         ELSE [ok |-> TRUE,
               rl |-> SetBucket(lim, key,
                        [lim.buckets[key] EXCEPT !.count = @ + 1])]

(***************************************************************************)
(* Observer of the allow calls.  It sees the key, the time, the verdict    *)
(* and the configured window of every call, never the buckets.  For each   *)
(* key it keeps the window the key is in: a window starts at the key's     *)
(* first call and at its first call made later than start + window.        *)
(*   grants: calls answered true in [start, start + window)                *)
(*   used:   calls answered true since start                               *)
(***************************************************************************)
NoCall ==
    [key |-> <<>>, t |-> 0, ok |-> FALSE, fresh |-> FALSE, expired |-> FALSE,
     wasRejected |-> FALSE, usedBefore |-> 0, concurrent |-> FALSE]

NewLimiterObserver == [win |-> <<>>, last |-> NoCall]

ObserveAllow(o, key, t, ok, window, concurrent) ==
    LET had == key \in DOMAIN o.win
        expired == had /\ t > o.win[key].start + window
        fresh == ~had \/ expired
        w0 == IF fresh
              THEN [start |-> t, grants |-> 0, used |-> 0, rejected |-> FALSE]
              ELSE o.win[key]
        w1 == [start |-> w0.start,
               grants |-> IF ok /\ t < w0.start + window
                          THEN w0.grants + 1 ELSE w0.grants,
               used |-> IF ok THEN w0.used + 1 ELSE w0.used,
               rejected |-> ~ok]
    IN [win |-> [k \in DOMAIN o.win \cup {key} |->
                    IF k = key THEN w1 ELSE o.win[k]],
        last |-> [key |-> key, t |-> t, ok |-> ok, fresh |-> fresh,
                  expired |-> expired,
                  wasRejected |-> had /\ o.win[key].rejected,
                  usedBefore |-> w0.used, concurrent |-> concurrent]]

(***************************************************************************)
(* SpecLimiter: goroutines of rl.Middleware call allow for their client    *)
(* key; a call waits for rl.mu and then runs as one step.                  *)
(***************************************************************************)
LimiterKeys == {<<"10.0.0.1">>, <<"10.0.0.2">>}

Goroutines == {"g1", "g2"}

IdleCall == [pc |-> "idle", key |-> <<>>]

\* rl.Middleware has computed the client key and calls rl.allow.
LimiterCall(g, key) ==
    /\ mreq[g].pc = "idle"
    /\ mreq' = [mreq EXCEPT ![g] = [pc |-> "allow", key |-> key]]
    /\ UNCHANGED <<now, bvars, gvars, rvars, rl, rlobs, mwcfg, hvars, lvars, dvars>>

\* The goroutine gets rl.mu and runs allow.
LimiterAllow(g) ==
    /\ mreq[g].pc = "allow"
    /\ LET r == allow(rl, mreq[g].key, now)
           concurrent == \E h \in Goroutines \ {g} :
                            mreq[h].pc = "allow" /\ mreq[h].key = mreq[g].key
       IN /\ rl' = r.rl
          /\ rlobs' = ObserveAllow(rlobs, mreq[g].key, now, r.ok, rl.window,
                                   concurrent)
    /\ mreq' = [mreq EXCEPT ![g] = IdleCall]
    /\ UNCHANGED <<now, bvars, gvars, rvars, mwcfg, hvars, lvars, dvars>>

LimiterTick ==
    /\ now < MaxLimiterTime
    /\ now' = now + 1
    /\ UNCHANGED <<bvars, gvars, rvars, mvars, hvars, lvars, dvars>>

LimiterInit ==
    /\ now = 0
    /\ BreakerIdle
    /\ GatewayIdle
    /\ RoutesIdle
    /\ \E n \in 1..MaxPermits, w \in 1..MaxWindow : rl = NewRateLimiter(n, w)
    /\ rlobs = NewLimiterObserver
    /\ mwcfg = <<>>
    /\ mreq = [g \in Goroutines |-> IdleCall]
    /\ WorkerIdle
    /\ BalancerIdle
    /\ DiscoveryIdle

LimiterNext ==
    \/ \E g \in Goroutines, key \in LimiterKeys : LimiterCall(g, key)
    \/ \E g \in Goroutines : LimiterAllow(g)
    \/ LimiterTick

SpecLimiter == LimiterInit /\ [][LimiterNext]_vars

(***************************************************************************)
(* Claims about the rate limiter, checked under SpecLimiter.               *)
(***************************************************************************)

\* C12: for every key, at most limit calls are answered true within
\* [t, t + window), t being the time of the first call of the key's window,
\* whatever the interleaving of the goroutines calling allow for that key.
C12_AtMostLimitPerWindow ==
    \A k \in DOMAIN rlobs.win : rlobs.win[k].grants <= rl.limit

\* A call made while another goroutine was calling allow for the same key
\* was rejected, the key having used all its permits in the window.
C12_Witness ==
    /\ rlobs.last.concurrent
    /\ ~rlobs.last.ok
    /\ rlobs.win[rlobs.last.key].grants = rl.limit
    /\ rl.limit = MaxPermits

\* C13: buckets are independent per key.  An allow call for key k leaves
\* the bucket of every other key as it was, creating and removing none, and
\* its verdict follows from the calls made for k alone: true when k starts
\* a window or has been granted fewer than limit calls in its window, so a
\* key that used up its permits never makes another key's call fail.
C13_BucketsIndependent ==
    [][\A g \in DOMAIN mreq :
          (mreq[g].pc = "allow" /\ mreq'[g].pc = "idle") =>
              /\ \A j \in (DOMAIN rl.buckets \cup DOMAIN rl'.buckets)
                            \ {mreq[g].key} :
                    /\ j \in DOMAIN rl.buckets
                    /\ j \in DOMAIN rl'.buckets
                    /\ rl'.buckets[j] = rl.buckets[j]
              /\ rlobs'.last.ok <=>
                    (rlobs'.last.fresh \/ rlobs'.last.usedBefore < rl.limit)]_vars

\* The first call of a key was granted while the other key was being
\* rejected in a window that is not over.
C13_Witness ==
    /\ rlobs.last.fresh
    /\ rlobs.last.ok
    /\ \E k \in DOMAIN rlobs.win :
          /\ k # rlobs.last.key
          /\ rlobs.win[k].rejected
          /\ now <= rlobs.win[k].start + rl.window
          /\ rl.buckets[k].count = rl.limit

\* C14: the first allow call of a key made after its window is over
\* (later than the window's start + window) returns true and leaves the
\* bucket with count 1 and resetAt = now + window, also when the key's
\* previous call was rejected; and no bucket's window ends later than
\* now + window, so no rejection outlasts the window.
C14_ExpiredWindowRestarts ==
    /\ rlobs.last.expired =>
          /\ rlobs.last.ok
          /\ rl.buckets[rlobs.last.key] =
                [count |-> 1, resetAt |-> rlobs.last.t + rl.window]
    /\ \A k \in DOMAIN rl.buckets : rl.buckets[k].resetAt <= now + rl.window

\* A key that was being rejected was granted its first call after the
\* window.
C14_Witness ==
    /\ rlobs.last.expired
    /\ rlobs.last.wasRejected
    /\ rlobs.last.ok
    /\ rl.buckets[rlobs.last.key].count = 1

(***************************************************************************)
(* The gateway's handler chain: cmd/gateway/main.go run and                *)
(* internal/gateway/middleware.go.  A string is a sequence of tokens; a    *)
(* host is one token.  Requests are GET requests without an Origin header, *)
(* which RequestLogging and CORS hand to the next handler.                 *)
(***************************************************************************)
MaxMwTime == 2   \* the clock of SpecMiddleware stops at MaxMwTime

StatusOK == 200
StatusUnauthorized == 401
StatusTooManyRequests == 429

Loopback == <<"127.0.0.1">>
PeerA == <<"10.0.0.1">>
PeerB == <<"10.0.0.2">>
Unknown == <<"unknown">>

\* net.SplitHostPort: the host before the last colon; on an address
\* without a port the error is dropped and the host is empty.
SplitHostPort(addr) ==
    LET colons == {i \in 1..Len(addr) : addr[i] = ":"} IN
    IF colons = {} THEN <<>>
    ELSE SubSeq(addr, 1, (CHOOSE i \in colons : \A j \in colons : j <= i) - 1)

\* net.ParseIP(host) != nil && ip.IsLoopback()
IsLoopback(host) == host = Loopback

\* strings.SplitN(s, ",", 2)[0]
BeforeComma(s) ==
    LET commas == {i \in 1..Len(s) : s[i] = ","} IN
    IF commas = {} THEN s
    ELSE SubSeq(s, 1, (CHOOSE i \in commas : \A j \in commas : i <= j) - 1)

\* strings.TrimSpace
RECURSIVE TrimSpace(_)
TrimSpace(s) ==
    IF s = <<>> THEN s
    ELSE IF Head(s) = " " THEN TrimSpace(Tail(s))
    ELSE IF s[Len(s)] = " " THEN TrimSpace(SubSeq(s, 1, Len(s) - 1))
    ELSE s

\* A clientIPAddress that takes X-Forwarded-For from any peer.
clientIPAddressTrustsAll(r) ==
    LET remoteHost == SplitHostPort(r.RemoteAddr)
        clientIP == TrimSpace(BeforeComma(r.xff))
    IN IF r.xff # <<>> /\ clientIP # <<>> THEN clientIP
       ELSE IF remoteHost # <<>> THEN remoteHost
       ELSE Unknown

\* clientIPAddress: X-Forwarded-For is read for a loopback peer only.
clientIPAddress(r) ==
    LET remoteHost == SplitHostPort(r.RemoteAddr)
        clientIP == TrimSpace(BeforeComma(r.xff))
    IN IF IsLoopback(remoteHost) /\ r.xff # <<>> /\ clientIP # <<>>
       THEN clientIP
       ELSE IF remoteHost # <<>> THEN remoteHost
       ELSE Unknown

\* The Authorization header: its scheme prefix and, of the token that
\* follows, the number of parts between dots, the key its signature was
\* made with, whether the payload decodes, and the decoded claims.
NoAuth ==
    [scheme |-> "", nparts |-> 0, signedWith |-> "", payloadOK |-> FALSE,
     Exp |-> 0, Iss |-> "", Aud |-> ""]

Bearer(nparts, key, payloadOK, exp, iss, aud) ==
    [scheme |-> "Bearer ", nparts |-> nparts, signedWith |-> key,
     payloadOK |-> payloadOK, Exp |-> exp, Iss |-> iss, Aud |-> aud]

\* A validateJWT that does not look at the audience.
validateJWTNoAudience(token, cfg, t) ==
    IF token.nparts # 3 THEN "invalid token format"
    ELSE IF token.signedWith # cfg.SecretKey THEN "invalid signature"
    ELSE IF ~token.payloadOK THEN "invalid token format"
    ELSE IF token.Exp > 0 /\ t > token.Exp THEN "token expired"
    ELSE IF cfg.ValidateIssuer /\ cfg.Issuer # "" /\ token.Iss # cfg.Issuer
         THEN "invalid issuer"
    ELSE "nil"

\* validateJWT with time.Now().Unix() reading t: the error, "nil" for none.
\* The HMAC of the signing input equals the token's signature exactly when
\* the token was signed with cfg.SecretKey.
validateJWT(token, cfg, t) ==
    IF token.nparts # 3 THEN "invalid token format"
    ELSE IF token.signedWith # cfg.SecretKey THEN "invalid signature"
    ELSE IF ~token.payloadOK THEN "invalid token format"
    ELSE IF token.Exp > 0 /\ t > token.Exp THEN "token expired"
    ELSE IF cfg.ValidateIssuer /\ cfg.Issuer # "" /\ token.Iss # cfg.Issuer
         THEN "invalid issuer"
    ELSE IF cfg.ValidateAudience /\ cfg.Audience # "" /\ token.Aud # cfg.Audience
         THEN "invalid audience"
    ELSE "nil"

HealthPath == <<"/health">>
DashboardPrefix == <<"/api/dashboard/">>
ApiPrefix == <<"/api/">>

\* The skip list run passes to JWTAuth.
SkipPaths == {HealthPath, DashboardPrefix}

\* JWTAuth: "next" when the inner handler is called, else the 401 reason.
JWTAuth(cfg, skipPaths, r, t) ==
    IF \E p \in skipPaths : HasPrefix(r.path, p) THEN "next"
    ELSE IF cfg.SecretKey = "" THEN "next"
    ELSE IF r.auth.scheme # "Bearer "
         THEN "missing or invalid authorization header"
    ELSE IF validateJWT(r.auth, cfg, t) # "nil" THEN "invalid token"
    ELSE "next"

\* The routing mux of run: the pattern that serves a GET of the path.
Mux(path, routePrefix) ==
    IF path = HealthPath THEN [handler |-> "health", status |-> StatusOK]
    ELSE IF HasPrefix(path, DashboardPrefix)
         THEN [handler |-> "dashboard", status |-> StatusOK]
    ELSE IF HasPrefix(path, routePrefix)
         THEN [handler |-> "proxy", status |-> StatusOK]   \* the proxy's answer
    ELSE [handler |-> "none", status |-> StatusNotFound]

\* The handler chain of run below RequestLogging and CORS, for a request
\* arriving when the clock reads t: rl.Middleware (if enabled), JWTAuth,
\* mux.  stage is the handler that wrote the response.
Chain(cfg, lim, r, t) ==
    LET ip == clientIPAddress(r)
        a == IF cfg.RateLimitEnabled THEN allow(lim, ip, t)
             ELSE [ok |-> TRUE, rl |-> lim]
        j == JWTAuth(cfg.JWT, SkipPaths, r, t)
        m == Mux(r.path, cfg.RoutePrefix)
    IN IF ~a.ok
       THEN [status |-> StatusTooManyRequests, stage |-> "ratelimit",
             handler |-> "none", ip |-> ip, rl |-> a.rl]
       ELSE IF j # "next"
       THEN [status |-> StatusUnauthorized, stage |-> "jwt",
             handler |-> "none", ip |-> ip, rl |-> a.rl]
       ELSE [status |-> m.status, stage |-> "mux",
             handler |-> m.handler, ip |-> ip, rl |-> a.rl]

(***************************************************************************)
(* SpecMiddleware: requests served by the chain, one after the other,      *)
(* while the clock advances.                                               *)
(***************************************************************************)
JWTConfigs ==
    {[SecretKey |-> k, Issuer |-> "iss", Audience |-> "aud",
      ValidateIssuer |-> TRUE, ValidateAudience |-> TRUE] : k \in {"", "k"}}
    \cup {[SecretKey |-> "k", Issuer |-> "iss", Audience |-> "",
           ValidateIssuer |-> FALSE, ValidateAudience |-> TRUE]}

\* The configurations of the model: the rate limiter off with each JWT
\* configuration, and on with the secret and both validations.
MwConfigs ==
    {[RateLimitEnabled |-> FALSE, RoutePrefix |-> ApiPrefix, JWT |-> jwt] :
        jwt \in JWTConfigs}
    \cup {[RateLimitEnabled |-> TRUE, RoutePrefix |-> ApiPrefix,
           JWT |-> [SecretKey |-> "k", Issuer |-> "iss", Audience |-> "aud",
                    ValidateIssuer |-> TRUE, ValidateAudience |-> TRUE]]}

GoodToken == Bearer(3, "k", TRUE, 0, "iss", "aud")

Auths ==
    {NoAuth, [GoodToken EXCEPT !.scheme = "bearer "],
     Bearer(2, "k", TRUE, 0, "iss", "aud"),
     Bearer(3, "x", TRUE, 0, "iss", "aud"),
     Bearer(3, "k", FALSE, 0, "iss", "aud"),
     Bearer(3, "k", TRUE, 0, "other", "aud"),
     Bearer(3, "k", TRUE, 0, "iss", "other")}
    \cup {Bearer(3, "k", TRUE, e, "iss", "aud") : e \in 0..(MaxMwTime - 1)}

RemoteAddrs == {Loopback \o <<":", "1">>, PeerA \o <<":", "1">>, <<"@">>}

XFFs ==
    {<<>>, PeerB, <<",">> \o PeerB,
     <<" ">> \o PeerA \o <<" ", ",">> \o PeerB}

ApiPath == ApiPrefix \o <<"a">>

Request(addr, xff, path, auth) ==
    [RemoteAddr |-> addr, xff |-> xff, path |-> path, auth |-> auth]

Requests ==
    {Request(PeerA \o <<":", "1">>, <<>>, ApiPath, a) : a \in Auths}
    \cup {Request(ra, x, ApiPath, NoAuth) : ra \in RemoteAddrs, x \in XFFs}
    \cup {Request(PeerA \o <<":", "1">>, <<>>, p, a) :
            p \in {HealthPath, HealthPath \o <<"z">>, <<"/x">>,
                   DashboardPrefix \o <<"m">>},
            a \in {NoAuth, GoodToken}}

NoRequest ==
    [served |-> FALSE, req |-> Request(<<>>, <<>>, <<>>, NoAuth), t |-> 0,
     status |-> 0, stage |-> "none", handler |-> "none", ip |-> <<>>]

\* The observer of the allow calls, keeping the last call only: its key,
\* time and verdict.
ObserveLast(o, key, t, ok) ==
    [o EXCEPT !.last = [NoCall EXCEPT !.key = key, !.t = t, !.ok = ok]]

\* One request goes through the chain.
ServeRequest(r) ==
    LET res == Chain(mwcfg, rl, r, now) IN
    /\ rl' = res.rl
    /\ rlobs' = IF mwcfg.RateLimitEnabled
                THEN ObserveLast(rlobs, res.ip, now, res.stage # "ratelimit")
                ELSE rlobs
    /\ mreq' = [served |-> TRUE, req |-> r, t |-> now, status |-> res.status,
                stage |-> res.stage, handler |-> res.handler, ip |-> res.ip]
    /\ UNCHANGED <<now, bvars, gvars, rvars, mwcfg, hvars, lvars, dvars>>

MwTick ==
    /\ now < MaxMwTime
    /\ now' = now + 1
    /\ UNCHANGED <<bvars, gvars, rvars, mvars, hvars, lvars, dvars>>

MiddlewareInit ==
    /\ now = 0
    /\ BreakerIdle
    /\ GatewayIdle
    /\ RoutesIdle
    /\ rl = NewRateLimiter(1, 1)
    /\ rlobs = NewLimiterObserver
    /\ mwcfg \in MwConfigs
    /\ mreq = NoRequest
    /\ WorkerIdle
    /\ BalancerIdle
    /\ DiscoveryIdle

MiddlewareNext ==
    \/ \E r \in Requests : ServeRequest(r)
    \/ MwTick

SpecMiddleware == MiddlewareInit /\ [][MiddlewareNext]_vars

(***************************************************************************)
(* Claims about the handler chain, checked under SpecMiddleware.           *)
(***************************************************************************)

\* C15: a GET of /health is answered 200 by the health handler, whether or
\* not it carries a token and whether or not the client IP has used up its
\* rate-limit permits in the current window.
C15_HealthBypassesAuthAndLimit ==
    (mreq.served /\ mreq.req.path = HealthPath) =>
        /\ mreq.status = StatusOK
        /\ mreq.handler = "health"

\* The request reached JWTAuth: the rate limiter did not answer it.
ReachedJWT == mreq.served /\ mreq.stage # "ratelimit"

\* The request's path has one of the skip prefixes.
Skipped == \E p \in SkipPaths : HasPrefix(mreq.req.path, p)

\* The request's token is a three-part bearer token signed with the secret,
\* with a payload that decodes and the issuer and audience that the
\* configuration asks for.
TokenChecksPass ==
    LET tok == mreq.req.auth
        cfg == mwcfg.JWT
    IN /\ tok.scheme = "Bearer "
       /\ tok.nparts = 3
       /\ tok.signedWith = cfg.SecretKey
       /\ tok.payloadOK
       /\ (cfg.ValidateIssuer /\ cfg.Issuer # "") => tok.Iss = cfg.Issuer
       /\ (cfg.ValidateAudience /\ cfg.Audience # "") => tok.Aud = cfg.Audience

\* C16: with a secret configured and a path without skip prefix, the inner
\* handler runs only for a bearer token that passes the signature, issuer
\* and audience checks and has not expired before the current second, it
\* runs for every such token whose exp is absent or later than the current
\* second, and every request it does not run for is answered 401.  With a
\* skip prefix or without a secret the inner handler always runs.
C16_InnerOnlyWithValidToken ==
    LET tok == mreq.req.auth
        invoked == mreq.stage = "mux"
    IN ReachedJWT =>
          IF mwcfg.JWT.SecretKey # "" /\ ~Skipped
          THEN /\ invoked => (TokenChecksPass /\ (tok.Exp > 0 => tok.Exp >= mreq.t))
               /\ (TokenChecksPass /\ (tok.Exp > 0 => tok.Exp > mreq.t)) => invoked
               /\ ~invoked => mreq.status = StatusUnauthorized
          ELSE invoked

\* A token with the wrong audience, right in everything else, was answered
\* 401 by JWTAuth.
C16_Witness ==
    /\ ReachedJWT
    /\ mwcfg.JWT.SecretKey # ""
    /\ mwcfg.JWT.ValidateAudience /\ mwcfg.JWT.Audience # ""
    /\ ~Skipped
    /\ mreq.req.auth = [GoodToken EXCEPT !.Aud = "other"]
    /\ mreq.stage = "jwt"
    /\ mreq.status = StatusUnauthorized

\* C17: a token with exp > 0 gets past JWTAuth only if exp is strictly
\* greater than the unix time of the request; with exp equal to the current
\* second, or earlier, the request is answered 401.
C17_ExpiryIsStrict ==
    (/\ ReachedJWT
     /\ mwcfg.JWT.SecretKey # ""
     /\ ~Skipped
     /\ mreq.req.auth.Exp > 0
     /\ mreq.req.auth.Exp <= mreq.t)
        => mreq.stage = "jwt" /\ mreq.status = StatusUnauthorized

\* The host the connection comes from.
PeerHost == SplitHostPort(mreq.req.RemoteAddr)

\* C18: for a peer that is not loopback the client IP is the peer host,
\* whatever X-Forwarded-For says: every request that differs from the one
\* served in that header only gets the same client IP, and the rate
\* limiter's call is made for the peer host's bucket.
C18_ForwardedForOnlyFromLoopback ==
    (mreq.served /\ ~IsLoopback(PeerHost)) =>
        LET expected == IF PeerHost = <<>> THEN Unknown ELSE PeerHost IN
        /\ mreq.ip = expected
        /\ \A x \in XFFs :
              clientIPAddress([mreq.req EXCEPT !.xff = x]) = expected
        /\ mwcfg.RateLimitEnabled => rlobs.last.key = expected

\* A request from 10.0.0.1 naming 10.0.0.2 in X-Forwarded-For was counted
\* in the bucket of 10.0.0.1 and granted, while the bucket of 10.0.0.2 was
\* used up.
C18_Witness ==
    /\ mreq.served
    /\ PeerHost = PeerA
    /\ mreq.req.xff = PeerB
    /\ mwcfg.RateLimitEnabled
    /\ rlobs.last.key = PeerA
    /\ rlobs.last.ok
    /\ PeerB \in DOMAIN rl.buckets
    /\ rl.buckets[PeerB].count = rl.limit
    /\ now <= rl.buckets[PeerB].resetAt

(***************************************************************************)
(* Health monitor: Worker.probeAll and its goroutines (the worker source), *)
(* Cache (internal/healthmonitor).  The unit of time is one probe          *)
(* interval.  Service IDs are unique in the catalog.                       *)
(***************************************************************************)
MaxCycles == 3   \* probe cycles explored

HTTPMeta == [k \in {"health_check_endpoint"} |-> "/health"]
TCPMeta == [k \in {"tcp_port"} |-> "9000"]

NameC == <<"c">>

\* The catalogs the worker sees: service a with s1 (HTTP probe) and maybe
\* s2 (no probe configuration), service c with s3 (TCP probe).
WorkerCatalogs ==
    LET s1 == Instance("s1", "h1", 80, "Healthy", HTTPMeta)
        s2 == Instance("s2", "h2", 80, "Healthy", NoMeta)
        s3 == Instance("s3", "h3", 80, "Healthy", TCPMeta)
    IN {[n \in {NameA} |-> <<s1, s2>>],
        [n \in {NameC} |-> <<s3>>],
        [n \in {NameA, NameC} |-> IF n = NameA THEN <<s1>> ELSE <<s3>>]}

\* The service IDs of a list of instances.
IDsOf(instances) == {instances[i].ServiceID : i \in 1..Len(instances)}

\* The service IDs registered in the catalog.
CatalogIDs(cat) == UNION {IDsOf(cat[n]) : n \in DOMAIN cat}

\* Worker.getBreaker: the breaker of serviceID, created on first use with
\* the configured threshold and a break duration of two probe intervals.
getBreakerReplaces(bm, cfg, serviceID) ==
    [s \in DOMAIN bm \cup {serviceID} |->
        IF s = serviceID
        THEN NewCircuitBreaker(cfg.FailureThreshold, cfg.ProbeInterval * 2)
        ELSE bm[s]]

getBreaker(bm, cfg, serviceID) ==
    IF serviceID \in DOMAIN bm THEN bm
    ELSE [s \in DOMAIN bm \cup {serviceID} |->
            IF s = serviceID
            THEN NewCircuitBreaker(cfg.FailureThreshold, cfg.ProbeInterval * 2)
            ELSE bm[s]]

\* runProbes: what the probe of the instance can return.
ProbeOutcomes(inst) ==
    IF "health_check_endpoint" \in DOMAIN inst.Metadata
          /\ inst.Metadata["health_check_endpoint"] # ""
    THEN {[status |-> st, probeType |-> "http"] : st \in {"Healthy", "Unhealthy"}}
    ELSE IF "tcp_port" \in DOMAIN inst.Metadata /\ inst.Metadata["tcp_port"] # ""
    THEN {[status |-> st, probeType |-> "tcp"] : st \in {"Healthy", "Unhealthy"}}
    ELSE {[status |-> "Unknown", probeType |-> "none"]}

\* probeInstance up to its updateStatus call, the probe returning outcome:
\* the breaker map afterwards and the result handed to updateStatus.
\* A probeInstance that counts a refusal as one more failure.
probeInstanceRecordsRefusal(bm, cfg, inst, outcome, t) ==
    LET bm1 == getBreaker(bm, cfg, inst.ServiceID)
        a == Allow(bm1[inst.ServiceID], t)
    IN IF ~a.ok
       THEN [breakers |-> [bm1 EXCEPT ![inst.ServiceID] = RecordFailure(a.cb, t)],
             status |-> "Unhealthy", probeType |-> "circuit-breaker",
             runProbes |-> FALSE]
       ELSE [breakers |->
                [bm1 EXCEPT ![inst.ServiceID] =
                    IF outcome.status = "Healthy" THEN RecordSuccess(a.cb)
                    ELSE RecordFailure(a.cb, t)],
             status |-> outcome.status, probeType |-> outcome.probeType,
             runProbes |-> TRUE]

\* probeInstance: runProbes tells whether the HTTP or TCP probe was run.
probeInstance(bm, cfg, inst, outcome, t) ==
    LET bm1 == getBreaker(bm, cfg, inst.ServiceID)
        a == Allow(bm1[inst.ServiceID], t)
    IN IF ~a.ok
       THEN [breakers |-> [bm1 EXCEPT ![inst.ServiceID] = a.cb],
             status |-> "Unhealthy", probeType |-> "circuit-breaker",
             runProbes |-> FALSE]
       ELSE [breakers |->
                [bm1 EXCEPT ![inst.ServiceID] =
                    IF outcome.status = "Healthy" THEN RecordSuccess(a.cb)
                    ELSE RecordFailure(a.cb, t)],
             status |-> outcome.status, probeType |-> outcome.probeType,
             runProbes |-> TRUE]

\* Cache.PreviousStatus: Unknown for a service ID that is not cached.
PreviousStatus(c, serviceID) ==
    IF serviceID \in DOMAIN c THEN c[serviceID].Status ELSE "Unknown"

\* Cache.Update: the entry of the service ID is overwritten.
CacheUpdate(c, serviceID, serviceName, status, probeType) ==
    [k \in DOMAIN c \cup {serviceID} |->
        IF k = serviceID
        THEN [ServiceID |-> serviceID, ServiceName |-> serviceName,
              Status |-> status, ProbeType |-> probeType]
        ELSE c[k]]

\* A test that publishes on every change, also from Unknown.
ShouldPublishFromUnknown(previousStatus, status) == previousStatus # status

\* updateStatus's test for publishing a ServiceHealthChangedEvent.
ShouldPublish(previousStatus, status) ==
    previousStatus # status /\ previousStatus # "Unknown"

ServiceHealthChangedEvent(serviceID, previousStatus, status) ==
    [ServiceID |-> serviceID, PreviousStatus |-> previousStatus,
     CurrentStatus |-> status]

\* An eviction that removes nothing.
EvictNothing(c, liveIDs) == c

\* The eviction loop of probeAll: entries whose ID is not live are removed.
Evict(c, liveIDs) == [k \in {j \in DOMAIN c : j \in liveIDs} |-> c[k]]

(***************************************************************************)
(* SpecWorker: probe cycles of one worker while the catalog changes.       *)
(*   wk.svc     the goroutine of each listed service                       *)
(*   wk.probes  the goroutine of each listed instance, by service ID       *)
(*   wk.liveIDs the live set collected in this cycle                       *)
(* Observer fields: wk.present, the service IDs that were in the catalog   *)
(* at some moment of the cycle; wk.evicted, the IDs the cycle's eviction   *)
(* removed; prevAtWrite of a probe, the cached status at the moment the    *)
(* probe's result was written.                                             *)
(***************************************************************************)
IdleWorker(cfg) ==
    [pc |-> "idle", config |-> cfg, svc |-> <<>>, liveIDs |-> {},
     probes |-> <<>>, present |-> {}, evicted |-> {}, finished |-> FALSE,
     log |-> ""]

NewProbe(serviceName, inst) ==
    [svc |-> serviceName, inst |-> inst, pc |-> "start", status |-> "Unknown",
     probeType |-> "", previousStatus |-> "Unknown", prevAtWrite |-> "Unknown",
     runProbes |-> FALSE]

\* The ticker fires and probeAll lists the services; a failure is logged
\* and ends the cycle.
ProbeAllStart ==
    /\ wk.pc = "idle"
    /\ now < MaxCycles
    /\ now' = now + wk.config.ProbeInterval
    /\ \/ wk' = [IdleWorker(wk.config) EXCEPT !.log = "failed to list services"]
       \/ wk' = [IdleWorker(wk.config) EXCEPT
                    !.pc = "fanout",
                    !.svc = [n \in RegistryGetServices(catalog) |-> "start"],
                    !.present = CatalogIDs(catalog)]
    /\ events' = {}
    /\ UNCHANGED <<bvars, gvars, rvars, mvars, hcache, lvars, dvars>>

\* The goroutine of a service lists its instances, adds them to the live
\* set and starts one goroutine per instance; a failure is logged and ends
\* the goroutine.
ServiceGoroutine(n) ==
    /\ wk.pc = "fanout"
    /\ n \in DOMAIN wk.svc
    /\ wk.svc[n] = "start"
    /\ \/ wk' = [wk EXCEPT !.svc[n] = "failed", !.log = "failed to list instances"]
       \/ LET instances == IF n \in DOMAIN catalog THEN catalog[n] ELSE <<>>
              ids == IDsOf(instances)
              instOf(id) == CHOOSE inst \in {instances[i] : i \in 1..Len(instances)} :
                                inst.ServiceID = id
          IN wk' = [wk EXCEPT
                      !.svc[n] = "probing",
                      !.liveIDs = @ \cup ids,
                      !.probes = [id \in DOMAIN @ \cup ids |->
                                    IF id \in ids THEN NewProbe(n, instOf(id))
                                    ELSE @[id]]]
    /\ UNCHANGED <<now, bvars, gvars, rvars, mvars, hcache, events, lvars, dvars>>

\* probeInstance: breaker, probe, breaker record.
ProbeInstance(id) ==
    /\ id \in DOMAIN wk.probes
    /\ wk.probes[id].pc = "start"
    /\ \E outcome \in ProbeOutcomes(wk.probes[id].inst) :
          LET r == probeInstance(breakers, wk.config, wk.probes[id].inst,
                                 outcome, now)
          IN /\ breakers' = r.breakers
             /\ wk' = [wk EXCEPT !.probes[id].pc = "probed",
                                 !.probes[id].status = r.status,
                                 !.probes[id].probeType = r.probeType,
                                 !.probes[id].runProbes = r.runProbes]
    /\ UNCHANGED <<now, bvars, routes, pcfg, req, rvars, mvars, hcache, events, lvars, dvars>>

\* updateStatus, first half: the previous status is read from the cache.
UpdateStatusRead(id) ==
    /\ id \in DOMAIN wk.probes
    /\ wk.probes[id].pc = "probed"
    /\ wk' = [wk EXCEPT !.probes[id].pc = "read",
                        !.probes[id].previousStatus = PreviousStatus(hcache, id)]
    /\ UNCHANGED <<now, bvars, gvars, rvars, mvars, hcache, events, lvars, dvars>>

\* updateStatus, second half: the cache is overwritten and the event is
\* published if the status changed.
UpdateStatusWrite(id) ==
    /\ id \in DOMAIN wk.probes
    /\ wk.probes[id].pc = "read"
    /\ LET p == wk.probes[id] IN
       /\ hcache' = CacheUpdate(hcache, id, p.svc, p.status, p.probeType)
       /\ events' = IF ShouldPublish(p.previousStatus, p.status)
                    THEN events \cup
                         {ServiceHealthChangedEvent(id, p.previousStatus, p.status)}
                    ELSE events
       /\ wk' = [wk EXCEPT
                   !.probes[id].pc = "done",
                   !.probes[id].prevAtWrite =
                       IF id \in DOMAIN hcache THEN hcache[id].Status ELSE "Unknown"]
    /\ UNCHANGED <<now, bvars, gvars, rvars, mvars, lvars, dvars>>

\* instWg.Wait returns: every probe of the service is done.
ServiceDone(n) ==
    /\ wk.pc = "fanout"
    /\ n \in DOMAIN wk.svc
    /\ wk.svc[n] = "probing"
    /\ \A id \in DOMAIN wk.probes :
          wk.probes[id].svc = n => wk.probes[id].pc = "done"
    /\ wk' = [wk EXCEPT !.svc[n] = "done"]
    /\ UNCHANGED <<now, bvars, gvars, rvars, mvars, hcache, events, lvars, dvars>>

\* svcWg.Wait returns and the stale entries are evicted.
ProbeAllEvict ==
    /\ wk.pc = "fanout"
    /\ \A n \in DOMAIN wk.svc : wk.svc[n] \in {"done", "failed"}
    /\ hcache' = Evict(hcache, wk.liveIDs)
    /\ wk' = [wk EXCEPT !.pc = "idle", !.finished = TRUE,
                        !.evicted = DOMAIN hcache \ DOMAIN hcache']
    /\ UNCHANGED <<now, bvars, gvars, rvars, mvars, events, lvars, dvars>>

\* Instances register and deregister.
WorkerCatalogChange ==
    /\ \E cat \in WorkerCatalogs : cat # catalog /\ catalog' = cat
    /\ wk' = IF wk.pc = "fanout"
             THEN [wk EXCEPT !.present = @ \cup CatalogIDs(catalog')]
             ELSE wk
    /\ UNCHANGED <<now, bvars, gvars, rf, lk, published, mvars, hcache, events, lvars, dvars>>

WorkerInit ==
    /\ now = 0
    /\ BreakerIdle
    /\ GatewayIdle
    /\ catalog \in WorkerCatalogs
    /\ rf = IdleRefresh
    /\ lk = NoLookup
    /\ published = <<>>
    /\ MiddlewareIdle
    /\ hcache = <<>>
    /\ wk = IdleWorker([FailureThreshold |-> 1, ProbeInterval |-> 1])
    /\ events = {}
    /\ BalancerIdle
    /\ DiscoveryIdle

WorkerNext ==
    \/ ProbeAllStart
    \/ \E n \in {NameA, NameC} : ServiceGoroutine(n)
    \/ \E id \in {"s1", "s2", "s3"} : ProbeInstance(id)
    \/ \E id \in {"s1", "s2", "s3"} : UpdateStatusRead(id)
    \/ \E id \in {"s1", "s2", "s3"} : UpdateStatusWrite(id)
    \/ \E n \in {NameA, NameC} : ServiceDone(n)
    \/ ProbeAllEvict
    \/ WorkerCatalogChange

SpecWorker == WorkerInit /\ [][WorkerNext]_vars

(***************************************************************************)
(* Claims about the health monitor, checked under SpecWorker.              *)
(***************************************************************************)

\* C19: when a probe cycle that listed the services has finished, every
\* cache entry belongs to a service ID that was in the catalog at some
\* moment of the cycle, and the eviction ran with every probe of the cycle
\* completed, so no probe writes an entry after it.
C19_NoStaleEntryAfterCycle ==
    (wk.pc = "idle" /\ wk.finished) =>
        /\ DOMAIN hcache \subseteq wk.present
        /\ \A id \in DOMAIN wk.probes : wk.probes[id].pc = "done"

\* s1 was cached, was absent from the catalog during the whole cycle and
\* was evicted, while the result of s3, probed in the cycle, stayed.
C19_Witness ==
    /\ wk.pc = "idle"
    /\ wk.finished
    /\ "s1" \in wk.evicted
    /\ "s1" \notin wk.present
    /\ "s3" \in DOMAIN hcache
    /\ "s3" \in DOMAIN wk.probes

\* C20: for each probe result written to the cache, one
\* ServiceHealthChangedEvent is published, carrying the status cached just
\* before the write and the new status, if that status was not Unknown and
\* differs from the new one; otherwise (first probe of the instance, or the
\* cached status repeated) none is published.
C20_EventIffStatusChanged ==
    \A id \in DOMAIN wk.probes :
        LET p == wk.probes[id]
            evs == {e \in events : e.ServiceID = id}
        IN IF p.pc = "done" /\ p.prevAtWrite # "Unknown" /\ p.prevAtWrite # p.status
           THEN evs = {ServiceHealthChangedEvent(id, p.prevAtWrite, p.status)}
           ELSE evs = {}

\* In one cycle s1 went from Healthy to Unhealthy and its event was
\* published, and s3 was probed for the first time without an event.
C20_Witness ==
    /\ "s1" \in DOMAIN wk.probes
    /\ wk.probes["s1"].pc = "done"
    /\ wk.probes["s1"].prevAtWrite = "Healthy"
    /\ wk.probes["s1"].status = "Unhealthy"
    /\ ServiceHealthChangedEvent("s1", "Healthy", "Unhealthy") \in events
    /\ "s3" \in DOMAIN wk.probes
    /\ wk.probes["s3"].pc = "done"
    /\ wk.probes["s3"].prevAtWrite = "Unknown"
    /\ wk.probes["s3"].status = "Healthy"

\* C21: a catalog failure during a probe cycle removes no cache entry.  A
\* cycle whose listing of the services fails leaves the cache as it is, and
\* no step of a cycle removes the entry of an instance of a service whose
\* instances could not be listed in that cycle.
C21_CatalogFailureKeepsCache ==
    [][/\ (wk.pc = "idle" /\ wk'.log = "failed to list services")
              => hcache' = hcache
       /\ \A id \in DOMAIN hcache :
             (/\ hcache[id].ServiceName \in DOMAIN wk.svc
              /\ wk.svc[hcache[id].ServiceName] = "failed")
                 => (id \in DOMAIN hcache' /\ hcache'[id] = hcache[id])]_vars

(***************************************************************************)
(* LoadBalancer: internal/router (load balancer and router.go)             *)
(*                                                                         *)
(* Go's 0-based slice index i is the 1-based index i + 1 of a sequence.    *)
(* The atomic counters are integers; a step of a goroutine is one access   *)
(* to the balancer's shared state.  lb.mu is the goroutine that holds      *)
(* LoadBalancer.mu across two steps, "" when nobody does.                  *)
(***************************************************************************)
MaxCalls == 3     \* Select calls started in a behaviour
MaxReports == 2   \* ReportResult calls started in a behaviour

\* ParseStrategy: the strategy a name denotes, RoundRobin when unrecognized.
ParseStrategy(name) ==
    LET l == ToLower(name) IN
    CASE l \in {<<"r", "ound", "r", "obin">>, <<"r", "ound", "_", "r", "obin">>}
            -> "RoundRobin"
      [] l \in {<<"l", "east", "c", "onnections">>,
                <<"l", "east", "_", "c", "onnections">>}
            -> "LeastConnections"
      [] l = <<"r", "andom">> -> "Random"
      [] l \in {<<"w", "eighted", "r", "ound", "r", "obin">>,
                <<"w", "eighted", "_", "r", "ound", "_", "r", "obin">>}
            -> "WeightedRoundRobin"
      [] l \in {<<"i", "p", "h", "ash">>, <<"i", "p", "_", "h", "ash">>}
            -> "IPHash"
      [] OTHER -> "RoundRobin"

filterHealthy(instances) ==
    SelectSeq(instances, LAMBDA inst : inst.Status = "Healthy")

filterNonUnknownKeepsAll(instances) == instances

filterNonUnknown(instances) ==
    SelectSeq(instances, LAMBDA inst : inst.Status # "Unknown")

\* The candidates of Select: the Healthy instances, else the non-Unknown ones.
Candidates(instances) ==
    IF Len(filterHealthy(instances)) = 0 THEN filterNonUnknown(instances)
    ELSE filterHealthy(instances)

resolveStrategy(candidates) ==
    LET withStrategy ==
            {i \in 1..Len(candidates) :
                /\ "lb_strategy" \in DOMAIN candidates[i].Metadata
                /\ candidates[i].Metadata["lb_strategy"] # <<>>}
    IN IF withStrategy = {} THEN "RoundRobin"
       ELSE LET first == CHOOSE i \in withStrategy :
                            \A j \in withStrategy : i <= j
            IN ParseStrategy(candidates[first].Metadata["lb_strategy"])

abs64(n) == IF n < 0 THEN -n ELSE n

NewLoadBalancer ==
    [roundRobinIdx |-> <<>>, connectionCount |-> <<>>, stats |-> <<>>,
     mu |-> ""]

\* getRoundRobinIdx: the counter of name, created at zero when missing.
getRoundRobinIdx(l, name) ==
    IF name \in DOMAIN l.roundRobinIdx THEN l
    ELSE [l EXCEPT !.roundRobinIdx = (name :> 0) @@ @]

selectRoundRobinSkipsAdd(l, serviceName, instances) ==
    LET l1 == getRoundRobinIdx(l, serviceName)
        n == l1.roundRobinIdx[serviceName]
        i == abs64(n) % Len(instances)
    IN [lb |-> l1, selected |-> instances[i + 1]]

selectRoundRobin(l, serviceName, instances) ==
    LET l1 == getRoundRobinIdx(l, serviceName)
        n == l1.roundRobinIdx[serviceName] + 1
        i == abs64(n) % Len(instances)
    IN [lb |-> [l1 EXCEPT !.roundRobinIdx[serviceName] = n],
        selected |-> instances[i + 1]]

DigitValue(c) ==
    CASE c = "0" -> 0
      [] c = "1" -> 1
      [] c = "2" -> 2
      [] c = "3" -> 3
      [] OTHER -> -1

RECURSIVE AtoiValue(_)
AtoiValue(s) ==
    IF s = <<>> THEN 0
    ELSE 10 * AtoiValue(SubSeq(s, 1, Len(s) - 1)) + DigitValue(s[Len(s)])

\* strconv.Atoi on a string of the model: decimal digits only.
Atoi(s) ==
    IF s = <<>> \/ \E i \in 1..Len(s) : DigitValue(s[i]) = -1
    THEN [ok |-> FALSE, n |-> 0]
    ELSE [ok |-> TRUE, n |-> AtoiValue(s)]

Weight(inst) ==
    IF "weight" \in DOMAIN inst.Metadata
    THEN LET parsed == Atoi(inst.Metadata["weight"]) IN
         IF parsed.ok /\ parsed.n > 0 THEN parsed.n ELSE 1
    ELSE 1

RECURSIVE Weighted(_)
Weighted(instances) ==
    IF instances = <<>> THEN <<>>
    ELSE [k \in 1..Weight(Head(instances)) |-> Head(instances)]
            \o Weighted(Tail(instances))

selectWeightedRoundRobin(l, serviceName, instances) ==
    selectRoundRobin(l, serviceName \o <<"-weighted">>, Weighted(instances))

RECURSIVE Xor(_, _)
Xor(a, b) ==
    IF a = 0 THEN b
    ELSE IF b = 0 THEN a
    ELSE ((a + b) % 2) + 2 * Xor(a \div 2, b \div 2)

\* One round of fnv1a on the 32-bit hash h = hi * 2^16 + lo and the rune c:
\* h ^= c; h *= 16777619 (= 256 * 2^16 + 403), modulo 2^32.
Fnv1aStep(h, c) ==
    LET lo == Xor(h.lo, c % 65536)
        hi == Xor(h.hi, c \div 65536)
        low == lo * 403
    IN [hi |-> ((low \div 65536) + hi * 403 + lo * 256) % 65536,
        lo |-> low % 65536]

RECURSIVE fnv1a(_)
\* fnv1a from the offset basis 2166136261 (= 33052 * 2^16 + 40389).
fnv1a(s) ==
    IF s = <<>> THEN [hi |-> 33052, lo |-> 40389]
    ELSE Fnv1aStep(fnv1a(SubSeq(s, 1, Len(s) - 1)), s[Len(s)])

\* h % n for the 32-bit h = hi * 2^16 + lo.
HashMod(h, n) == ((h.hi % n) * (65536 % n) + (h.lo % n)) % n

NoHeaders == [k \in {} |-> <<>>]
CorrelationHeader(v) == [k \in {"X-Correlation-ID"} |-> v]
Context(sessionID, headers) == [SessionID |-> sessionID, Headers |-> headers]

\* The key selectIPHash hashes; random is the key drawn when ctx has none.
HashKey(ctx, random) ==
    LET k1 == ctx.SessionID
        k2 == IF k1 = <<>> /\ "X-Correlation-ID" \in DOMAIN ctx.Headers
              THEN ctx.Headers["X-Correlation-ID"] ELSE k1
    IN IF k2 = <<>> THEN random ELSE k2

selectIPHash(instances, ctx, random) ==
    instances[HashMod(fnv1a(HashKey(ctx, random)), Len(instances)) + 1]

selectRandom(instances, r) == instances[r + 1]

selectHashFromCounter(l, strategy, serviceName, candidates, ctx, random, r) ==
    CASE strategy = "WeightedRoundRobin"
            -> selectWeightedRoundRobin(l, serviceName, candidates)
      [] strategy = "Random"
            -> [lb |-> l, selected |-> selectRandom(candidates, r)]
      [] OTHER -> selectRoundRobin(l, serviceName, candidates)

\* The strategy switch of Select for the strategies that pick in one step.
selectByStrategy(l, strategy, serviceName, candidates, ctx, random, r) ==
    CASE strategy = "WeightedRoundRobin"
            -> selectWeightedRoundRobin(l, serviceName, candidates)
      [] strategy = "IPHash"
            -> [lb |-> l, selected |-> selectIPHash(candidates, ctx, random)]
      [] strategy = "Random"
            -> [lb |-> l, selected |-> selectRandom(candidates, r)]
      [] OTHER -> selectRoundRobin(l, serviceName, candidates)

\* getConnectionCounts: the counters of serviceName, created when missing.
getConnectionCounts(l, serviceName) ==
    IF serviceName \in DOMAIN l.connectionCount THEN l
    ELSE [l EXCEPT !.connectionCount = (serviceName :> <<>>) @@ @]

\* getOrCreateCounter on the counters of serviceName.
getOrCreateCounter(l, serviceName, serviceID) ==
    IF serviceID \in DOMAIN l.connectionCount[serviceName] THEN l
    ELSE [l EXCEPT !.connectionCount[serviceName] = (serviceID :> 0) @@ @]

newServiceStats(serviceName) ==
    [serviceName |-> serviceName, totalRequests |-> 0,
     successfulRequests |-> 0, failedRequests |-> 0,
     totalResponseNanos |-> 0, instanceCounts |-> <<>>]

\* serviceStats.recordRequest
StatsRecordRequest(s, instanceID) ==
    [s EXCEPT !.totalRequests = @ + 1,
              !.instanceCounts =
                  IF instanceID \in DOMAIN @
                  THEN [@ EXCEPT ![instanceID] = @ + 1]
                  ELSE (instanceID :> 1) @@ @]

recordRequestDropsRepeat(l, serviceName, inst) ==
    IF inst.ServiceID \in DOMAIN l.stats THEN l
    ELSE [l EXCEPT !.stats = (inst.ServiceID :>
             StatsRecordRequest(newServiceStats(serviceName), inst.ServiceID))
             @@ @]

\* LoadBalancer.recordRequest
recordRequest(l, serviceName, inst) ==
    LET s == IF inst.ServiceID \in DOMAIN l.stats THEN l.stats[inst.ServiceID]
             ELSE newServiceStats(serviceName)
    IN [l EXCEPT !.stats = (inst.ServiceID :>
                               StatsRecordRequest(s, inst.ServiceID)) @@ @]

RequestResult(serviceID, success, responseTime) ==
    [ServiceID |-> serviceID, Success |-> success,
     ResponseTime |-> responseTime]

\* serviceStats.report
report(s, result) ==
    [s EXCEPT !.successfulRequests = IF result.Success THEN @ + 1 ELSE @,
              !.failedRequests = IF result.Success THEN @ ELSE @ + 1,
              !.totalResponseNanos = @ + result.ResponseTime]

\* The values ReportResult loads: per service, the counter of serviceID.
LoadCounters(l, serviceID) ==
    [n \in {m \in DOMAIN l.connectionCount :
                serviceID \in DOMAIN l.connectionCount[m]}
        |-> l.connectionCount[n][serviceID]]

DecrementAlways(l, serviceID, loaded) ==
    [l EXCEPT !.connectionCount =
        [n \in DOMAIN @ |->
            IF n \in DOMAIN loaded
            THEN [@[n] EXCEPT ![serviceID] = @ - 1]
            ELSE @[n]]]

\* The decrements of ReportResult: a counter that was loaded above zero.
Decrement(l, serviceID, loaded) ==
    [l EXCEPT !.connectionCount =
        [n \in DOMAIN @ |->
            IF n \in DOMAIN loaded /\ loaded[n] > 0
            THEN [@[n] EXCEPT ![serviceID] = @ - 1]
            ELSE @[n]]]

\* The statistics part of ReportResult.
ReportStats(l, serviceID, result) ==
    IF serviceID \in DOMAIN l.stats
    THEN [l EXCEPT !.stats[serviceID] = report(@, result)]
    ELSE l

RECURSIVE SumOver(_, _)
\* The sum of f[x] over the x in set.
SumOver(f, set) ==
    IF set = {} THEN 0
    ELSE LET x == CHOOSE y \in set : TRUE
         IN f[x] + SumOver(f, set \ {x})

\* LoadBalancer.Stats
Stats(l, serviceName) ==
    LET mine == {id \in DOMAIN l.stats :
                    l.stats[id].serviceName = serviceName}
        totalReq == SumOver([id \in mine |-> l.stats[id].totalRequests], mine)
        totalTicks ==
            SumOver([id \in mine |-> l.stats[id].totalResponseNanos], mine)
        ids == UNION {DOMAIN l.stats[id].instanceCounts : id \in mine}
    IN [ServiceName |-> serviceName,
        TotalRequests |-> totalReq,
        SuccessfulRequests |->
            SumOver([id \in mine |-> l.stats[id].successfulRequests], mine),
        FailedRequests |->
            SumOver([id \in mine |-> l.stats[id].failedRequests], mine),
        AverageResponseTime |->
            IF totalReq > 0 THEN totalTicks \div totalReq ELSE 0,
        InstanceRequestCounts |->
            [i \in ids |->
                SumOver([id \in {m \in mine :
                                    i \in DOMAIN l.stats[m].instanceCounts}
                            |-> l.stats[id].instanceCounts[i]],
                        {m \in mine : i \in DOMAIN l.stats[m].instanceCounts})]]

\* --- the providers, the callers and the calls of the model ---

RoundRobinName == <<"R", "ound", "R", "obin">>
LeastConnectionsName == <<"L", "east", "C", "onnections">>
IPHashName == <<"i", "p", "_", "h", "ash">>
WeightedName == <<"W", "eighted", "R", "ound", "R", "obin">>
RandomName == <<"r", "andom">>

StrategyMeta(s) == [k \in {"lb_strategy"} |-> s]
WeightMeta(s, w) == [k \in {"lb_strategy", "weight"} |->
                        IF k = "weight" THEN w ELSE s]

\* The instance lists of service NameA a provider of the model can hold.
ProviderLists ==
    {<<Instance("s1", "h1", 80, "Healthy", NoMeta),
       Instance("s2", "h2", 80, "Healthy", NoMeta),
       Instance("s3", "h3", 80, "Healthy", NoMeta)>>,
     <<Instance("s1", "h1", 80, "Unhealthy", NoMeta),
       Instance("s2", "h2", 80, "Healthy", StrategyMeta(RoundRobinName)),
       Instance("s3", "h3", 80, "Degraded", NoMeta)>>,
     <<Instance("s1", "h1", 80, "Unknown", NoMeta),
       Instance("s2", "h2", 80, "Degraded", NoMeta),
       Instance("s3", "h3", 80, "Unhealthy", StrategyMeta(<<"bogus">>))>>,
     <<Instance("s1", "h1", 80, "Unknown", NoMeta)>>,
     <<Instance("s1", "h1", 80, "Healthy", NoMeta),
       Instance("s2", "h2", 80, "Healthy",
                StrategyMeta(LeastConnectionsName))>>,
     <<Instance("s1", "h1", 80, "Healthy", StrategyMeta(IPHashName)),
       Instance("s2", "h2", 80, "Healthy", NoMeta),
       Instance("s3", "h3", 80, "Healthy", NoMeta)>>,
     <<Instance("s1", "h1", 80, "Healthy",
                WeightMeta(WeightedName, <<"2">>)),
       Instance("s2", "h2", 80, "Healthy",
                WeightMeta(WeightedName, <<"x">>))>>,
     <<Instance("s1", "h1", 80, "Healthy", StrategyMeta(RandomName)),
       Instance("s2", "h2", 80, "Unknown", NoMeta),
       Instance("s3", "h3", 80, "Healthy", NoMeta)>>}

\* A provider: it lists the instances of NameA and of no other service.
Providers == {(NameA :> l) : l \in ProviderLists}

\* InstanceProvider.GetInstances of the stub provider: no list, no error.
ProviderGetInstances(p, serviceName) ==
    IF serviceName \in DOMAIN p THEN p[serviceName] ELSE <<>>

LbServices == {NameA, NameB}
LbGoroutines == {"g1", "g2"}
SessionU == <<117>>
SessionV == <<118>>
Contexts ==
    {Context(SessionU, NoHeaders), Context(SessionV, NoHeaders),
     Context(<<>>, CorrelationHeader(SessionU)), Context(<<>>, NoHeaders)}
RandomKeys == {<<49>>, <<50>>}
ReportIDs == {"s1", "s2", "zz"}
ResponseTimes == {2}

NoInstance == Instance("", "", 0, "", NoMeta)
NoReturn == [kind |-> "none", name |-> <<>>, selected |-> NoInstance,
             err |-> FALSE, stats |-> <<>>]

IdleGoroutine ==
    [pc |-> "idle", name |-> <<>>, candidates |-> <<>>, i |-> 0,
     best |-> 0, reads |-> <<>>, selected |-> NoInstance,
     serviceID |-> "", result |-> <<>>, loaded |-> <<>>]

NewBalancerObserver ==
    [calls |-> 0, reports |-> 0,
     rr |-> [n \in LbServices |-> <<>>],
     returned |-> [n \in LbServices |-> 0],
     succeeded |-> [n \in LbServices |-> 0],
     failed |-> [n \in LbServices |-> 0],
     owner |-> <<>>, hash |-> <<>>, last |-> NoReturn]

\* The observer after the pick of a strategy that picks in one step.
ObservePick(o, strategy, name, ctx, selected) ==
    LET o1 == IF strategy = "RoundRobin"
              THEN [o EXCEPT !.rr[name] = Append(@, selected.ServiceID)]
              ELSE o
    IN IF strategy = "IPHash" /\ ctx.SessionID # <<>>
       THEN LET key == <<name, ctx.SessionID>>
                old == IF key \in DOMAIN o1.hash THEN o1.hash[key]
                       ELSE [ids |-> {}, calls |-> 0]
            IN [o1 EXCEPT !.hash =
                   (key :> [ids |-> old.ids \cup {selected.ServiceID},
                            calls |-> old.calls + 1]) @@ @]
       ELSE o1

SelectReturn(name, selected, err) ==
    [kind |-> "select", name |-> name, selected |-> selected, err |-> err,
     stats |-> <<>>]

\* Select whose GetInstances fails: the error is returned.
LbSelectError(g, name) ==
    /\ lbg[g].pc = "idle"
    /\ lbobs.calls < MaxCalls
    /\ lbg' = [lbg EXCEPT ![g] = IdleGoroutine]
    /\ lbobs' = [lbobs EXCEPT !.calls = @ + 1,
                              !.last = SelectReturn(name, NoInstance, TRUE)]
    /\ UNCHANGED <<now, bvars, gvars, rvars, mvars, hvars, provider, lb, dvars>>

\* Select up to its first access to the balancer: GetInstances, the filters,
\* resolveStrategy, and the pick of every strategy but LeastConnections.
LbSelect(g, name, ctx) ==
    /\ lbg[g].pc = "idle"
    /\ lbobs.calls < MaxCalls
    /\ lb.mu = ""
    /\ LET candidates == Candidates(ProviderGetInstances(provider, name))
           strategy == resolveStrategy(candidates)
       IN IF Len(candidates) = 0
          THEN /\ lbg' = [lbg EXCEPT ![g] = IdleGoroutine]
               /\ lbobs' = [lbobs EXCEPT
                               !.calls = @ + 1,
                               !.last = SelectReturn(name, NoInstance, FALSE)]
               /\ lb' = lb
          ELSE IF strategy = "LeastConnections"
          THEN /\ lb' = getConnectionCounts(lb, name)
               /\ lbg' = [lbg EXCEPT ![g] =
                             [@ EXCEPT !.pc = "scan", !.name = name,
                                       !.candidates = candidates, !.i = 0,
                                       !.best = 0, !.reads = <<>>]]
               /\ lbobs' = [lbobs EXCEPT !.calls = @ + 1]
          ELSE \E random \in RandomKeys, r \in 0..(Len(candidates) - 1) :
                  LET picked == selectByStrategy(lb, strategy, name,
                                                 candidates, ctx, random, r)
                  IN /\ lb' = picked.lb
                     /\ lbg' = [lbg EXCEPT ![g] =
                                   [@ EXCEPT !.pc = "record", !.name = name,
                                             !.selected = picked.selected]]
                     /\ lbobs' = ObservePick([lbobs EXCEPT !.calls = @ + 1],
                                             strategy, name, ctx,
                                             picked.selected)
    /\ UNCHANGED <<now, bvars, gvars, rvars, mvars, hvars, provider, dvars>>

\* One round of the loop of selectLeastConnections: load the counter of
\* candidate i and keep it when it is below the best so far.
LbScan(g) ==
    /\ lbg[g].pc = "scan"
    /\ lbg[g].i < Len(lbg[g].candidates)
    /\ lb.mu = ""
    /\ LET me == lbg[g]
           id == me.candidates[me.i + 1].ServiceID
           l1 == getOrCreateCounter(lb, me.name, id)
           v == l1.connectionCount[me.name][id]
           better == me.reads = <<>> \/ v < me.reads[me.best + 1]
       IN /\ lb' = l1
          /\ lbg' = [lbg EXCEPT ![g] =
                        [@ EXCEPT !.i = @ + 1,
                                  !.best = IF better THEN me.i ELSE @,
                                  !.reads = Append(@, v)]]
    /\ UNCHANGED <<now, bvars, gvars, rvars, mvars, hvars, provider, lbobs, dvars>>

\* The end of selectLeastConnections: add one to the counter of the best.
LbAdd(g) ==
    /\ lbg[g].pc = "scan"
    /\ lbg[g].i = Len(lbg[g].candidates)
    /\ LET me == lbg[g]
           best == me.candidates[me.best + 1]
       IN /\ lb' = [lb EXCEPT
                       !.connectionCount[me.name][best.ServiceID] = @ + 1]
          /\ lbg' = [lbg EXCEPT ![g] =
                        [@ EXCEPT !.pc = "record", !.selected = best]]
    /\ UNCHANGED <<now, bvars, gvars, rvars, mvars, hvars, provider, lbobs, dvars>>

\* The end of Select: recordRequest, and the selected instance is returned.
LbRecord(g) ==
    /\ lbg[g].pc = "record"
    /\ lb.mu = ""
    /\ LET me == lbg[g] IN
       /\ lb' = recordRequest(lb, me.name, me.selected)
       /\ lbg' = [lbg EXCEPT ![g] = IdleGoroutine]
       /\ lbobs' = [lbobs EXCEPT
                       !.returned[me.name] = @ + 1,
                       !.owner = @ @@ (me.selected.ServiceID :> me.name),
                       !.last = SelectReturn(me.name, me.selected, FALSE)]
    /\ UNCHANGED <<now, bvars, gvars, rvars, mvars, hvars, provider, dvars>>

\* ReportResult takes the lock and loads the counters of serviceID.
LbReportLoad(g, serviceID, result) ==
    /\ lbg[g].pc = "idle"
    /\ lbobs.reports < MaxReports
    /\ lb.mu = ""
    /\ lb' = [lb EXCEPT !.mu = g]
    /\ lbg' = [lbg EXCEPT ![g] =
                  [@ EXCEPT !.pc = "report", !.serviceID = serviceID,
                            !.result = result,
                            !.loaded = LoadCounters(lb, serviceID)]]
    /\ lbobs' = [lbobs EXCEPT !.reports = @ + 1]
    /\ UNCHANGED <<now, bvars, gvars, rvars, mvars, hvars, provider, dvars>>

\* ReportResult decrements, reports to the statistics and unlocks.
LbReportAdd(g) ==
    /\ lbg[g].pc = "report"
    /\ LET me == lbg[g]
           l1 == Decrement(lb, me.serviceID, me.loaded)
           known == me.serviceID \in DOMAIN lbobs.owner
       IN /\ lb' = [ReportStats(l1, me.serviceID, me.result) EXCEPT !.mu = ""]
          /\ lbg' = [lbg EXCEPT ![g] = IdleGoroutine]
          /\ lbobs' =
                LET o == [lbobs EXCEPT !.last = [NoReturn EXCEPT
                                                   !.kind = "report"]]
                IN IF ~known THEN o
                   ELSE IF me.result.Success
                   THEN [o EXCEPT
                           !.succeeded[lbobs.owner[me.serviceID]] = @ + 1]
                   ELSE [o EXCEPT
                           !.failed[lbobs.owner[me.serviceID]] = @ + 1]
    /\ UNCHANGED <<now, bvars, gvars, rvars, mvars, hvars, provider, dvars>>

\* Stats, under the lock.
LbStats(g, name) ==
    /\ lbg[g].pc = "idle"
    /\ lb.mu = ""
    /\ lbobs' = [lbobs EXCEPT !.last = [NoReturn EXCEPT
                                           !.kind = "stats", !.name = name,
                                           !.stats = Stats(lb, name)]]
    /\ UNCHANGED <<now, bvars, gvars, rvars, mvars, hvars, provider, lb, lbg, dvars>>

BalancerInit ==
    /\ now = 0
    /\ BreakerIdle
    /\ GatewayIdle
    /\ RoutesIdle
    /\ MiddlewareIdle
    /\ WorkerIdle
    /\ provider \in Providers
    /\ lb = NewLoadBalancer
    /\ lbg = [g \in LbGoroutines |-> IdleGoroutine]
    /\ lbobs = NewBalancerObserver
    /\ DiscoveryIdle

BalancerNext ==
    \/ \E g \in LbGoroutines, name \in LbServices : LbSelectError(g, name)
    \/ \E g \in LbGoroutines, name \in LbServices, ctx \in Contexts :
          LbSelect(g, name, ctx)
    \/ \E g \in LbGoroutines : LbScan(g)
    \/ \E g \in LbGoroutines : LbAdd(g)
    \/ \E g \in LbGoroutines : LbRecord(g)
    \/ \E g \in LbGoroutines, id \in ReportIDs, ok \in BOOLEAN,
          rt \in ResponseTimes :
          LbReportLoad(g, id, RequestResult(id, ok, rt))
    \/ \E g \in LbGoroutines : LbReportAdd(g)
    \/ \E g \in LbGoroutines, name \in LbServices : LbStats(g, name)

SpecBalancer == BalancerInit /\ [][BalancerNext]_vars

\* The IDs of the instances of a list.
IDsOfList(instances) == {instances[i].ServiceID : i \in 1..Len(instances)}

\* C22: a Select call that returns without error returns a Healthy instance
\* of the service when the provider lists one, otherwise a listed instance
\* that is Degraded or Unhealthy when there is one, otherwise nothing; the
\* instance it returns is never of status Unknown.
C22_SelectPrefersHealthy ==
    LET r == lbobs.last
        listed == ProviderGetInstances(provider, r.name)
        statuses == {listed[i].Status : i \in 1..Len(listed)}
    IN (r.kind = "select" /\ ~r.err) =>
          /\ "Healthy" \in statuses => r.selected.Status = "Healthy"
          /\ ("Healthy" \notin statuses /\ statuses \ {"Unknown"} # {})
                => r.selected.Status \in {"Degraded", "Unhealthy"}
          /\ statuses \subseteq {"Unknown"} => r.selected = NoInstance
          /\ r.selected.Status # "Unknown"
          /\ r.selected # NoInstance
                => \E i \in 1..Len(listed) : listed[i] = r.selected

C22_Witness ==
    LET listed == ProviderGetInstances(provider, lbobs.last.name) IN
    /\ lbobs.last.kind = "select"
    /\ lbobs.last.selected.Status \in {"Degraded", "Unhealthy"}
    /\ \E i \in 1..Len(listed) : listed[i].Status = "Unknown"

\* C23: with RoundRobin and the N candidates of a service, every N
\* consecutive Select calls of the service, in the order in which they took
\* their counter value, return each candidate exactly once, and after k*N
\* calls every candidate was returned k times, also when calls overlap.
C23_RoundRobinFair ==
    \A name \in LbServices :
        LET cands == Candidates(ProviderGetInstances(provider, name))
            n == Len(cands)
            log == lbobs.rr[name]
        IN (n > 0 /\ resolveStrategy(cands) = "RoundRobin") =>
              /\ \A k \in 1..(Len(log) - n + 1) :
                    {log[j] : j \in k..(k + n - 1)} = IDsOfList(cands)
              /\ (Len(log) % n = 0) =>
                    \A id \in IDsOfList(cands) :
                        Cardinality({j \in 1..Len(log) : log[j] = id})
                            = Len(log) \div n

C23_Witness ==
    LET cands == Candidates(ProviderGetInstances(provider, NameA)) IN
    /\ Len(cands) >= 2
    /\ resolveStrategy(cands) = "RoundRobin"
    /\ Len(lbobs.rr[NameA]) > Len(cands)
    /\ \A g \in LbGoroutines : lbg[g].pc = "record"

\* C24: the step that ends selectLeastConnections adds one to the counter
\* of the instance it returns and to no other, and that instance is the
\* first candidate with the smallest counter when no counter changed since
\* the call loaded it; ReportResult takes one from a counter it loaded above
\* zero and from no other; and no step makes a connection counter negative.
C24_LeastConnections ==
    [][/\ \A g \in LbGoroutines :
            (lbg[g].pc = "scan" /\ lbg'[g].pc = "record") =>
                LET me == lbg[g]
                    counts == lb.connectionCount[me.name]
                    ids == [i \in 1..Len(me.candidates) |->
                               me.candidates[i].ServiceID]
                    sel == lbg'[g].selected.ServiceID
                IN /\ lb'.connectionCount[me.name] =
                          [counts EXCEPT ![sel] = @ + 1]
                   /\ (\A i \in DOMAIN ids : counts[ids[i]] = me.reads[i])
                        => \E b \in DOMAIN ids :
                              /\ ids[b] = sel
                              /\ \A i \in DOMAIN ids :
                                    counts[sel] <= counts[ids[i]]
                              /\ \A i \in 1..(b - 1) :
                                    counts[sel] < counts[ids[i]]
       /\ \A g \in LbGoroutines :
            (lbg[g].pc = "report" /\ lbg'[g].pc = "idle") =>
                \A n \in DOMAIN lb.connectionCount :
                    \A id \in DOMAIN lb.connectionCount[n] :
                        lb'.connectionCount[n][id] =
                            IF id = lbg[g].serviceID
                               /\ lb.connectionCount[n][id] > 0
                               /\ lbg[g].loaded[n] > 0
                            THEN lb.connectionCount[n][id] - 1
                            ELSE lb.connectionCount[n][id]
       /\ \A n \in DOMAIN lb'.connectionCount :
            \A id \in DOMAIN lb'.connectionCount[n] :
                lb'.connectionCount[n][id] >= 0]_vars

C24_Witness ==
    /\ NameA \in DOMAIN lb.connectionCount
    /\ DOMAIN lb.connectionCount[NameA] = {"s1", "s2"}
    /\ lb.connectionCount[NameA]["s1"] = 0
    /\ lb.connectionCount[NameA]["s2"] = 1
    /\ lbobs.reports = 2
    /\ lb.mu = ""

\* C25: with IPHash, all the Select calls of a service that carry the same
\* non-empty SessionID return the same instance, whatever calls are made in
\* between.
C25_SameSessionSameInstance ==
    \A key \in DOMAIN lbobs.hash : Cardinality(lbobs.hash[key].ids) = 1

C25_Witness ==
    /\ \E key \in DOMAIN lbobs.hash : lbobs.hash[key].calls >= 2
    /\ Cardinality(DOMAIN lbobs.hash) >= 2
    /\ lbobs.reports >= 1

\* C26: for every service, Stats reports as TotalRequests the number of
\* Select calls of the service that returned an instance, as Successful-
\* and FailedRequests the numbers of ReportResult calls with Success true
\* and false for instances that a Select call had returned, and
\* per-instance counts that add up to TotalRequests; a ReportResult for an
\* instance that no Select call returned is counted nowhere.
C26_StatsAccounting ==
    /\ \A name \in LbServices :
          LET st == Stats(lb, name) IN
          /\ st.TotalRequests = lbobs.returned[name]
          /\ st.SuccessfulRequests = lbobs.succeeded[name]
          /\ st.FailedRequests = lbobs.failed[name]
          /\ SumOver(st.InstanceRequestCounts,
                     DOMAIN st.InstanceRequestCounts) = st.TotalRequests
    /\ lbobs.last.kind = "stats" =>
          /\ lbobs.last.stats.TotalRequests = lbobs.returned[lbobs.last.name]
          /\ lbobs.last.stats.SuccessfulRequests
                = lbobs.succeeded[lbobs.last.name]
          /\ lbobs.last.stats.FailedRequests = lbobs.failed[lbobs.last.name]

C26_Witness ==
    /\ lbobs.last.kind = "stats"
    /\ lbobs.last.stats.TotalRequests >= 2
    /\ lbobs.last.stats.SuccessfulRequests = 1
    /\ lbobs.last.stats.FailedRequests = 1

(***************************************************************************)
(* Discovery server: internal/discovery/server.go, and the publisher of    *)
(* internal/messaging/publisher.go that it shares with the health monitor. *)
(*                                                                         *)
(* A trackingInfo is its ServiceName, its Status and whether               *)
(* DeregisteredAt is set; addresses, metadata and time stamps are left     *)
(* out.  A step of an RPC is one access to Server.tracking: Register has   *)
(* one, Deregister and ReportHealth read the record first and write it     *)
(* after the catalog call.  rpc.last is the response of the RPC that       *)
(* finished last, with the observer's view of that call.                   *)
(***************************************************************************)
MaxRpcs == 3   \* RPCs started in a behaviour

\* Publisher.Publish: p.ch is false for the no-op publisher; bus is what
\* the exchange does with a message.  err is the error that is returned.
Publish(p, bus) ==
    IF ~p.ch THEN [err |-> FALSE, sent |-> FALSE]
    ELSE IF bus = "declare fails" THEN [err |-> TRUE, sent |-> FALSE]
    ELSE IF bus = "publish fails" THEN [err |-> TRUE, sent |-> FALSE]
    ELSE [err |-> FALSE, sent |-> TRUE]

\* NewPublisher: the no-op publisher when no bus URL is configured.
NewPublisher(url) == [ch |-> url # <<>>]

BusURL == <<"amqp://bus">>
BusOutcomes == {"ok", "declare fails", "publish fails"}

fromProtoHealth(ps) ==
    CASE ps = "HEALTH_STATUS_HEALTHY" -> "Healthy"
      [] ps = "HEALTH_STATUS_UNHEALTHY" -> "Unhealthy"
      [] ps = "HEALTH_STATUS_DEGRADED" -> "Degraded"
      [] OTHER -> "Unknown"

healthStatusName(st) ==
    CASE st = "Healthy" -> "Healthy"
      [] st = "Unhealthy" -> "Unhealthy"
      [] st = "Degraded" -> "Degraded"
      [] OTHER -> "Unknown"

\* strconv of a clock value of the model.
Itoa(n) ==
    CASE n = 0 -> <<"0">>
      [] n = 1 -> <<"1">>
      [] n = 2 -> <<"2">>
      [] OTHER -> <<"9">>

\* The service ID Register uses: the request's, or "<name>-<nanos>".
RegisterID(serviceID, serviceName, t) ==
    IF serviceID = <<>> THEN serviceName \o <<"-">> \o Itoa(t) ELSE serviceID

Response(success, serviceID, errorMessage, removed) ==
    [Success |-> success, ServiceId |-> serviceID,
     ErrorMessage |-> errorMessage, Removed |-> removed, rpcError |-> FALSE]

ServiceRegisteredEvent(serviceID, serviceName) ==
    [type |-> "ServiceRegisteredEvent", ServiceID |-> serviceID,
     ServiceName |-> serviceName, PreviousStatus |-> "",
     CurrentStatus |-> ""]

ServiceDeregisteredEvent(serviceID, serviceName) ==
    [type |-> "ServiceDeregisteredEvent", ServiceID |-> serviceID,
     ServiceName |-> serviceName, PreviousStatus |-> "",
     CurrentStatus |-> ""]

HealthChangedEvent(serviceID, serviceName, previousStatus, status) ==
    [type |-> "ServiceHealthChangedEvent", ServiceID |-> serviceID,
     ServiceName |-> serviceName,
     PreviousStatus |-> healthStatusName(previousStatus),
     CurrentStatus |-> healthStatusName(status)]

\* What a handler gives back: its response, the tracking map it leaves, the
\* events it handed to Publish and the errors Publish returned for them.
Handled(resp, tr, handed, p, bus) ==
    [resp |-> resp, tracking |-> tr,
     handed |-> {[event |-> e, err |-> Publish(p, bus).err] : e \in handed}]

NewTrackingInfo(serviceName) ==
    [ServiceName |-> serviceName, Status |-> "Healthy",
     Deregistered |-> FALSE]

RegisterTracksFirst(tr, call, t, catalogErr, p, bus) ==
    LET id == RegisterID(call.id, call.name, t)
        tr1 == (id :> NewTrackingInfo(call.name)) @@ tr
    IN IF catalogErr
       THEN Handled(Response(FALSE, id, "consul register", FALSE), tr1, {},
                    p, bus)
       ELSE Handled(Response(TRUE, id, "", FALSE), tr1,
                    {ServiceRegisteredEvent(id, call.name)}, p, bus)

\* Server.Register
Register(tr, call, t, catalogErr, p, bus) ==
    LET id == RegisterID(call.id, call.name, t) IN
    IF catalogErr
    THEN Handled(Response(FALSE, id, "consul register", FALSE), tr, {}, p, bus)
    ELSE Handled(Response(TRUE, id, "", FALSE),
                 (id :> NewTrackingInfo(call.name)) @@ tr,
                 {ServiceRegisteredEvent(id, call.name)}, p, bus)

\* The record Deregister and ReportHealth read first: info == nil when the
\* ID is not tracked, with the zero values of its fields.
ReadInfo(tr, id) ==
    IF id \in DOMAIN tr
    THEN [found |-> TRUE, Status |-> tr[id].Status,
          ServiceName |-> tr[id].ServiceName]
    ELSE [found |-> FALSE, Status |-> "Unknown", ServiceName |-> <<>>]

\* Server.Deregister from the catalog call on.
Deregister(tr, call, t, catalogErr, p, bus) ==
    IF catalogErr
    THEN Handled(Response(FALSE, <<>>, "", FALSE), tr, {}, p, bus)
    ELSE Handled(Response(FALSE, <<>>, "", TRUE),
                 IF call.id \in DOMAIN tr
                 THEN [tr EXCEPT ![call.id].Deregistered = TRUE]
                 ELSE tr,
                 {ServiceDeregisteredEvent(call.id, call.info.ServiceName)},
                 p, bus)

ReportHealthGated(tr, call, t, catalogErr, p, bus) ==
    LET newStatus == fromProtoHealth(call.status)
        changed == call.info.found /\ call.info.Status # newStatus
    IN IF catalogErr
       THEN Handled(Response(FALSE, <<>>, "", FALSE), tr, {}, p, bus)
       ELSE Handled(Response(~(changed /\ Publish(p, bus).err), <<>>, "",
                             FALSE),
                    IF call.id \in DOMAIN tr
                    THEN [tr EXCEPT ![call.id].Status = newStatus]
                    ELSE tr,
                    IF changed
                    THEN {HealthChangedEvent(call.id, call.info.ServiceName,
                                             call.info.Status, newStatus)}
                    ELSE {},
                    p, bus)

\* Server.ReportHealth from the catalog call on.
ReportHealth(tr, call, t, catalogErr, p, bus) ==
    LET newStatus == fromProtoHealth(call.status) IN
    IF catalogErr
    THEN Handled(Response(FALSE, <<>>, "", FALSE), tr, {}, p, bus)
    ELSE Handled(Response(TRUE, <<>>, "", FALSE),
                 IF call.id \in DOMAIN tr
                 THEN [tr EXCEPT ![call.id].Status = newStatus]
                 ELSE tr,
                 IF call.info.found /\ call.info.Status # newStatus
                 THEN {HealthChangedEvent(call.id, call.info.ServiceName,
                                          call.info.Status, newStatus)}
                 ELSE {},
                 p, bus)

\* Worker.updateStatus of the health monitor, with the publisher's answer.
updateStatus(c, call, t, catalogErr, p, bus) ==
    LET previousStatus == PreviousStatus(c, call.id) IN
    Handled(Response(TRUE, <<>>, "", FALSE),
            CacheUpdate(c, call.id, call.name, call.status, "http"),
            IF ShouldPublish(previousStatus, call.status)
            THEN {ServiceHealthChangedEvent(call.id, previousStatus,
                                            call.status)}
            ELSE {},
            p, bus)

\* The handler of a call, on the map it works on.
Handle(m, call, t, catalogErr, p, bus) ==
    CASE call.op = "Register" -> Register(m, call, t, catalogErr, p, bus)
      [] call.op = "Deregister" -> Deregister(m, call, t, catalogErr, p, bus)
      [] call.op = "ReportHealth"
            -> ReportHealth(m, call, t, catalogErr, p, bus)
      [] OTHER -> updateStatus(m, call, t, catalogErr, p, bus)

\* --- the callers and the calls of the model ---

RpcGoroutines == {"r1", "r2"}
IDOne == <<"s1">>
RpcIDs == {IDOne}
ProtoStatuses == {"HEALTH_STATUS_HEALTHY", "HEALTH_STATUS_UNHEALTHY"}
Publishers == {NewPublisher(<<>>), NewPublisher(BusURL)}

NoInfo == [found |-> FALSE, Status |-> "Unknown", ServiceName |-> <<>>]
Call(op, id, name, status, info) ==
    [op |-> op, id |-> id, name |-> name, status |-> status, info |-> info]
IdleCallOf == Call("", <<>>, <<>>, "", NoInfo)

NewRpcState(p) ==
    [publisher |-> p, calls |-> 0,
     g |-> [r \in RpcGoroutines |-> IdleCallOf],
     last |-> [call |-> IdleCallOf, catalogErr |-> FALSE,
               resp |-> Response(FALSE, <<>>, "", FALSE), handed |-> {}],
     chain |-> <<>>]

\* The status the discovery server last announced for each serviceID: the
\* currentStatus of its last ServiceHealthChangedEvent, Healthy after a
\* ServiceRegisteredEvent.
Announce(chain, op, handed) ==
    IF op \notin {"Register", "ReportHealth"} THEN chain
    ELSE LET ids == {e.event.ServiceID : e \in handed} IN
         [id \in DOMAIN chain \cup ids |->
            IF id \in ids
            THEN LET ev == (CHOOSE e \in handed : e.event.ServiceID = id).event
                 IN IF op = "Register" THEN "Healthy" ELSE ev.CurrentStatus
            ELSE chain[id]]

Announced(chain, id) == IF id \in DOMAIN chain THEN chain[id] ELSE "Healthy"

\* The end of a call: the handler's result is applied to the map m.
Finish(g, call, catalogErr, bus, m) ==
    LET h == Handle(m, call, now, catalogErr, rpc.publisher, bus) IN
    [state |-> h.tracking,
     rpc |-> [rpc EXCEPT !.g[g] = IdleCallOf,
                         !.last = [call |-> call, catalogErr |-> catalogErr,
                                   resp |-> h.resp, handed |-> h.handed],
                         !.chain = Announce(@, call.op, h.handed)],
     devents |-> devents \cup {e.event : e \in h.handed}]

\* Register: the catalog call, the tracking record, the event.
DiscRegister(g, id, name, catalogErr, bus) ==
    /\ rpc.g[g].op = ""
    /\ rpc.calls < MaxRpcs
    /\ LET f == Finish(g, Call("Register", id, name, "", NoInfo),
                       catalogErr, bus, tracking)
       IN /\ tracking' = f.state
          /\ rpc' = [f.rpc EXCEPT !.calls = @ + 1]
          /\ devents' = f.devents
    /\ UNCHANGED <<now, bvars, gvars, rvars, mvars, hvars, lvars>>

\* Deregister, first part: the service name is read from the tracking map.
DiscDeregisterRead(g, id) ==
    /\ rpc.g[g].op = ""
    /\ rpc.calls < MaxRpcs
    /\ rpc' = [rpc EXCEPT !.calls = @ + 1,
                          !.g[g] = Call("Deregister", id, <<>>, "",
                                        ReadInfo(tracking, id))]
    /\ UNCHANGED <<now, bvars, gvars, rvars, mvars, hvars, lvars, tracking, devents>>

\* ReportHealth, first part: the previous status is read.
DiscReportHealthRead(g, id, status) ==
    /\ rpc.g[g].op = ""
    /\ rpc.calls < MaxRpcs
    /\ rpc' = [rpc EXCEPT !.calls = @ + 1,
                          !.g[g] = Call("ReportHealth", id, <<>>, status,
                                        ReadInfo(tracking, id))]
    /\ UNCHANGED <<now, bvars, gvars, rvars, mvars, hvars, lvars, tracking, devents>>

\* Deregister and ReportHealth from the catalog call on.
DiscFinish(g, catalogErr, bus) ==
    /\ rpc.g[g].op # ""
    /\ LET f == Finish(g, rpc.g[g], catalogErr, bus, tracking) IN
       /\ tracking' = f.state
       /\ rpc' = f.rpc
       /\ devents' = f.devents
    /\ UNCHANGED <<now, bvars, gvars, rvars, mvars, hvars, lvars>>

\* The health monitor writes a probe result of instance s1 to its cache.
MonitorUpdateStatus(status, bus) ==
    /\ LET f == Finish("r1", Call("updateStatus", "s1", NameA, status, NoInfo),
                       FALSE, bus, hcache)
       IN /\ hcache' = f.state
          /\ rpc' = [f.rpc EXCEPT !.g = rpc.g]
          /\ events' = events \cup {e.event : e \in f.rpc.last.handed}
    /\ UNCHANGED <<now, bvars, gvars, rvars, mvars, wk, lvars, tracking, devents>>

DiscoveryInit ==
    /\ now = 0
    /\ BreakerIdle
    /\ GatewayIdle
    /\ RoutesIdle
    /\ MiddlewareIdle
    /\ WorkerIdle
    /\ BalancerIdle
    /\ tracking = <<>>
    /\ \E p \in Publishers : rpc = NewRpcState(p)
    /\ devents = {}

DiscoveryNext ==
    \/ \E g \in RpcGoroutines, id \in {IDOne, <<>>}, err \in BOOLEAN,
          bus \in BusOutcomes : DiscRegister(g, id, NameA, err, bus)
    \/ \E g \in RpcGoroutines, id \in RpcIDs : DiscDeregisterRead(g, id)
    \/ \E g \in RpcGoroutines, id \in RpcIDs, st \in ProtoStatuses :
          DiscReportHealthRead(g, id, st)
    \/ \E g \in RpcGoroutines, err \in BOOLEAN, bus \in BusOutcomes :
          DiscFinish(g, err, bus)
    \/ \E st \in {"Healthy", "Unhealthy"}, bus \in BusOutcomes :
          MonitorUpdateStatus(st, bus)

SpecDiscovery == DiscoveryInit /\ [][DiscoveryNext]_vars

\* A step that ends a call: no goroutine starts one in it.
Finishing == \A g \in RpcGoroutines : ~(rpc.g[g].op = "" /\ rpc'.g[g].op # "")

\* C27: a Register, Deregister or ReportHealth whose catalog call fails
\* answers with success=false (Register with an error message), removed=false
\* and success=false, as a response and not as an RPC error, leaves the
\* tracking map as it is and hands no event to the publisher.
C27_CatalogFailureIsAResponse ==
    [][(Finishing /\ rpc'.last.catalogErr) =>
          /\ tracking' = tracking
          /\ devents' = devents
          /\ rpc'.last.handed = {}
          /\ ~rpc'.last.resp.rpcError
          /\ ~rpc'.last.resp.Success
          /\ ~rpc'.last.resp.Removed
          /\ rpc'.last.call.op = "Register"
                => rpc'.last.resp.ErrorMessage # ""]_vars

C27_Witness ==
    /\ rpc.last.catalogErr
    /\ rpc.last.call.op = "Deregister"
    /\ rpc.last.call.id \in DOMAIN tracking
    /\ ~tracking[rpc.last.call.id].Deregistered
    /\ ~rpc.last.resp.Removed

\* C28: a ReportHealth that succeeds hands a ServiceHealthChangedEvent to
\* the publisher exactly when the service ID is tracked with a status other
\* than the reported one at the moment the call records the reported
\* status, and it records that status; for an ID that is not tracked it
\* hands over no event and creates no tracking record.
C28_EventIffTrackedStatusChanges ==
    [][(/\ Finishing
        /\ rpc'.last.call.op = "ReportHealth"
        /\ rpc'.last.resp.Success) =>
          LET id == rpc'.last.call.id
              newStatus == fromProtoHealth(rpc'.last.call.status)
          IN IF id \in DOMAIN tracking
             THEN /\ (rpc'.last.handed # {})
                        <=> (tracking[id].Status # newStatus)
                  /\ tracking'[id].Status = newStatus
             ELSE /\ rpc'.last.handed = {}
                  /\ id \notin DOMAIN tracking']_vars

\* C29: the response of Register, Deregister and ReportHealth and the
\* tracking map they leave, and the cache the health monitor's updateStatus
\* leaves, are the same for every publisher, configured or not, and for
\* every answer of the bus.
C29_PublishNeverGates ==
    [][Finishing =>
          \A p \in Publishers, bus \in BusOutcomes :
              LET monitor == rpc'.last.call.op = "updateStatus"
                  h == Handle(IF monitor THEN hcache ELSE tracking,
                              rpc'.last.call, now, rpc'.last.catalogErr,
                              p, bus)
              IN /\ h.resp = rpc'.last.resp
                 /\ h.tracking = IF monitor THEN hcache' ELSE tracking']_vars

C29_Witness ==
    /\ rpc.last.call.op = "Register"
    /\ rpc.last.resp.Success
    /\ \E e \in rpc.last.handed : e.err
    /\ rpc.last.resp.ServiceId \in DOMAIN tracking
    /\ \E e \in events : e.CurrentStatus = "Unhealthy"

\* C30: a proxy attempt that the circuit breaker refuses makes no upstream
\* call and leaves the breaker of its backend as it was: the same failure
\* count, the same state and the same openedAt.
C30_RefusalLeavesBreaker ==
    [][\A c \in DOMAIN req :
          (req[c].pc = "check" /\ req'[c].refusals = req[c].refusals + 1) =>
              LET sid == req[c].backend.ServiceID IN
              /\ sid \in DOMAIN breakers
              /\ breakers'[sid].failureCount = breakers[sid].failureCount
              /\ breakers'[sid].state = breakers[sid].state
              /\ breakers'[sid].openedAt = breakers[sid].openedAt
              /\ req'[c].calls = req[c].calls]_vars

C30_Witness ==
    \E c \in DOMAIN req :
        /\ req[c].refusals >= 1
        /\ req[c].calls >= 1
        /\ req[c].backend.ServiceID \in DOMAIN breakers
        /\ breakers[req[c].backend.ServiceID].state = "Open"

\* C31: an Open breaker leaves the Open state only by going to HalfOpen
\* after the break duration has elapsed; the result of a call that was
\* admitted before the breaker opened and is recorded while it is Open does
\* not move it to Closed.
C31_OpenLeavesOnlyToHalfOpen ==
    [][(cb.state = "Open" /\ bobs.admitted >= 1 /\ cb'.state # "Open") =>
          /\ cb'.state = "HalfOpen"
          /\ now - cb.openedAt >= cb.breakDuration]_vars

\* C32: the result of a call that was admitted before the breaker opened
\* and fails while the breaker is Open leaves openedAt as it was.
C32_OpenFailureKeepsOpenedAt ==
    [][(cb.state = "Open" /\ bobs.admitted >= 1 /\ cb'.state = "Open") =>
          cb'.openedAt = cb.openedAt]_vars

FromUpstream(r) ==
    /\ r.response # NoResp
    /\ r.response.body[1] = "upstream"

\* Nothing is written to the client while the attempt loop runs, and a
\* request that is done has exactly one response written.
OneWrite(r) ==
    /\ r.pc \in {"idle", "check", "forward", "sleep"} => r.writes = 0
    /\ r.pc = "done" => r.writes = 1

\* C34 as stated: every request gets exactly one response, nothing is
\* written before the attempt loop has succeeded or is exhausted, and a
\* buffered response that is written comes from the last attempt made: the
\* buffered response of an attempt followed by another attempt is never
\* written.
C34_OneWriteFromLastAttempt ==
    \A c \in DOMAIN req :
        /\ OneWrite(req[c])
        /\ (req[c].pc = "done" /\ FromUpstream(req[c])) =>
               req[c].bufferedAt = req[c].attempt

\* C34 as amended: every request gets exactly one response, nothing is
\* written before the attempt loop has succeeded or is exhausted, and a
\* buffered response that is written is the most recent one buffered; it
\* comes from an earlier attempt only if every attempt after it was refused
\* by the breaker or failed in transport.
C34_OneWriteOfMostRecentBuffered ==
    \A c \in DOMAIN req :
        LET r == req[c] IN
        /\ OneWrite(r)
        /\ (r.pc = "done" /\ FromUpstream(r)) =>
               /\ r.response = IF r.okCall # NoResp THEN r.okCall ELSE r.last5xx
               /\ r.bufferedAt <= r.attempt
               /\ r.bufferedAt < r.attempt =>
                      r.lastErr \in {"transport", "circuit breaker open"}

\* An upstream 500 at one attempt, a later attempt that failed in
\* transport, and the client is answered once, with the 500.
C34_Witness ==
    \E c \in DOMAIN req :
        /\ req[c].pc = "done"
        /\ req[c].writes = 1
        /\ FromUpstream(req[c])
        /\ req[c].response.status = StatusInternalError
        /\ req[c].bufferedAt < req[c].attempt
        /\ req[c].lastErr = "transport"

\* C35: an attempt after the first forwards to a backend that the route
\* table held for the service when the attempt started; inTable records
\* whether the lookup of the attempt found the service.
C35_RetryUsesFreshLookup ==
    \A c \in DOMAIN req :
        (req[c].pc = "forward" /\ req[c].attempt > 0) => req[c].inTable

\* C36: after every refresh every entry of the route table is keyed by the
\* lower-cased service name, holds at least one backend, holds only
\* instances the catalog reported Healthy for that service in that refresh,
\* and no entry is the service consul in any letter case; a Lookup returns
\* nothing or a backend of an instance that was Healthy in the latest
\* snapshot.
C36_RefreshedTableIsHealthy ==
    /\ \A k \in DOMAIN routes :
          /\ k = ToLower(routes[k].ServiceName)
          /\ Len(routes[k].Backends) >= 1
          /\ \A i \in 1..Len(routes[k].Backends) :
                <<k, routes[k].Backends[i].ServiceID>> \in rf.pubHealthy
          /\ ~EqualFold(k, ConsulName)
    /\ lk.healthyHit

\* A refresh of a catalog that lists consul, Consul, service B with a
\* Degraded instance and service a with an Unhealthy and a Healthy instance
\* has published a table with the one Healthy instance, and a Lookup of A
\* returned it.
C36_Witness ==
    /\ rf.pc = "idle"
    /\ rf.log = "route table refreshed"
    /\ DOMAIN routes = {NameA}
    /\ Len(routes[NameA].Backends) = 1
    /\ routes[NameA].Backends[1].ServiceID = "s2"
    /\ lk.name = <<"A">>
    /\ lk.result.ServiceID = "s2"
    /\ ~lk.refreshing
    /\ ConsulMixed \in DOMAIN catalog
    /\ Len(catalog[NameA]) = 2
    /\ catalog[NameA][1].Status = "Unhealthy"
    /\ catalog[NameB][1].Status = "Degraded"

\* The breaker of serviceID id refuses a call at time t: it is Open and the
\* break duration has not elapsed.
Refuses(bm, id, t) ==
    /\ id \in DOMAIN bm
    /\ bm[id].state = "Open"
    /\ t - bm[id].openedAt < bm[id].breakDuration

\* C37: when the breaker refuses the probe of an instance, the result is
\* Unhealthy with probeType circuit-breaker, no HTTP or TCP probe is run,
\* the breaker is left as it was, and that result is what updateStatus
\* writes to the cache entry of the instance.
C37_RefusedProbeIsUnhealthy ==
    [][\A id \in DOMAIN wk.probes :
          /\ (wk.probes[id].pc = "start" /\ id \in DOMAIN wk'.probes
                  /\ wk'.probes[id].pc = "probed"
                  /\ Refuses(breakers, id, now)) =>
                /\ wk'.probes[id].status = "Unhealthy"
                /\ wk'.probes[id].probeType = "circuit-breaker"
                /\ ~wk'.probes[id].runProbes
                /\ breakers' = breakers
          /\ (wk.probes[id].pc = "read" /\ id \in DOMAIN wk'.probes
                  /\ wk'.probes[id].pc = "done"
                  /\ ~wk.probes[id].runProbes) =>
                /\ id \in DOMAIN hcache'
                /\ hcache'[id].Status = "Unhealthy"
                /\ hcache'[id].ProbeType = "circuit-breaker"
                /\ breakers' = breakers]_vars

\* The probe of s1 failed in one cycle and opened its breaker; in the next
\* cycle the breaker refused, no probe was run and the cache entry is
\* Unhealthy by circuit-breaker.
C37_Witness ==
    /\ "s1" \in DOMAIN wk.probes
    /\ wk.probes["s1"].pc = "done"
    /\ ~wk.probes["s1"].runProbes
    /\ Refuses(breakers, "s1", now)
    /\ breakers["s1"].failureCount = 1
    /\ "s1" \in DOMAIN hcache
    /\ hcache["s1"].Status = "Unhealthy"
    /\ hcache["s1"].ProbeType = "circuit-breaker"

\* The metadata of the instance has neither health_check_endpoint nor
\* tcp_port.
NoProbeConfig(inst) ==
    /\ ~("health_check_endpoint" \in DOMAIN inst.Metadata
           /\ inst.Metadata["health_check_endpoint"] # "")
    /\ ~("tcp_port" \in DOMAIN inst.Metadata /\ inst.Metadata["tcp_port"] # "")

\* C38: after every probe cycle that probed an instance without probe
\* configuration, the cache entry of the instance has status Unknown and
\* probeType none, and no ServiceHealthChangedEvent is published for it.
C38_NoConfigStaysUnknown ==
    \A id \in DOMAIN wk.probes :
        NoProbeConfig(wk.probes[id].inst) =>
            /\ (wk.pc = "idle" /\ wk.finished /\ id \in DOMAIN hcache) =>
                  /\ hcache[id].Status = "Unknown"
                  /\ hcache[id].ProbeType = "none"
            /\ \A e \in events : e.ServiceID # id

\* C39: the ServiceHealthChangedEvents that ReportHealth publishes for a
\* serviceID form a chain: the previousStatus of each is the currentStatus
\* of the one published before it for that serviceID, Healthy after the
\* registration, and differs from its own currentStatus.
C39_HealthEventsChain ==
    [][(Finishing /\ rpc'.last.call.op = "ReportHealth") =>
          \A e \in rpc'.last.handed :
              /\ e.event.PreviousStatus # e.event.CurrentStatus
              /\ e.event.PreviousStatus = Announced(rpc.chain, e.event.ServiceID)]_vars

\* C40: whenever ParseServiceFromPath succeeds on the path of a request,
\* the service name is the non-empty first segment after the prefix, with
\* no "/" in it, and the remainder starts with "/".
C40_ParsedServiceIsFirstSegment ==
    \A c \in DOMAIN req :
        req[c].pc # "idle" =>
            LET parsed == ParseServiceFromPath(Prefix(pcfg), req[c].path) IN
            parsed.ok =>
                /\ parsed.serviceName # <<>>
                /\ \A i \in 1..Len(parsed.serviceName) :
                      parsed.serviceName[i] # "/"
                /\ parsed.remainder # <<>>
                /\ parsed.remainder[1] = "/"

====
